---------------------------- MODULE Spec2Model ----------------------------
(***************************************************************************)
(* A model of the Epilog laser driver (cups-epilog.c): option parsing and  *)
(* range_checks, generate_pjl with generate_raster and generate_vector,    *)
(* and the LPD delivery of printer_send / printer_connect.                 *)
(*                                                                         *)
(* Every stream (the bitmap, the vector text, the composed job, the bytes  *)
(* written to the socket, the scratch buffer buf) is a sequence of bytes   *)
(* 0..255; C strings are the ASCII codes of their characters.  The static  *)
(* buffer buf is held as its touched prefix: bytes beyond it are the zeros *)
(* of static storage.                                                      *)
(***************************************************************************)
EXTENDS Integers, Sequences, FiniteSets, TLC

VARIABLES
    \* ---- global configuration (static variables of the program)
    focus, resolution, raster_mode, raster_speed, raster_power, raster_repeat,
    screen_size, vector_speed, vector_power, vector_freq, width, height,
    x_center, x_repeat, y_center, y_repeat,
    job_name, job_user, job_title,
    buf,
    \* ---- files
    bitmap_file, bitmap_pos, vector_file, vector_pos, pjl_file, pjl_pos,
    \* ---- the document read and the encapsulated document written
    ps_file, eps_file,
    \* ---- locals of generate_raster
    repeat, passes, base_offset, bitmap_header, h, d, pass, y, dir, pack,
    \* ---- locals shared in shape by generate_raster and generate_vector
    offx, offy, basex, basey,
    \* ---- locals of generate_vector
    up, newline, started, sx, sy, lx, ly, power, passstart,
    \* ---- printer_connect / printer_send
    socket_descriptor, sock_open, i, timeout, alarm, slept, sent, rcvd, lpdres,
    localhost,
    \* ---- control: position of the single thread, number of options parsed,
    \*      and the values the functions returned
    pc, nopts, raster_ret, pjl_ret, send_ret, exit_code

cfgvars  == <<focus, resolution, raster_mode, raster_speed, raster_power,
              raster_repeat, screen_size, vector_speed, vector_power,
              vector_freq, x_center, x_repeat, y_center, y_repeat>>
dimvars  == <<width, height>>
jobvars  == <<job_name, job_user, job_title>>
filevars == <<bitmap_file, bitmap_pos, vector_file, vector_pos, pjl_file,
              pjl_pos>>
epsvars  == <<ps_file, eps_file>>
rastervars == <<repeat, passes, base_offset, bitmap_header, h, d, pass, y,
                dir, pack>>
tilevars == <<offx, offy, basex, basey>>
vectorvars == <<up, newline, started, sx, sy, lx, ly, power, passstart>>
netvars  == <<socket_descriptor, sock_open, i, timeout, alarm, slept, sent,
              rcvd, lpdres, localhost>>
retvars  == <<raster_ret, pjl_ret, send_ret, exit_code>>
vars == <<cfgvars, dimvars, jobvars, buf, filevars, epsvars, rastervars, tilevars,
          vectorvars, netvars, retvars, pc, nopts>>

(***************************************************************************)
(* Bounds of the model.                                                    *)
(***************************************************************************)
\* options given on one command line
MaxOpts == 2
\* candidate addresses one getaddrinfo call returns
MaxAddrs == 2
\* largest acknowledgement byte the device answers with
MaxAck == 2
\* largest ceiling handed to printer_connect when it is checked on its own
MaxCeiling == 12
\* segments a scan line is built from when the packer is checked on its own
MaxSegs == 2

(***************************************************************************)
(* Program constants.                                                      *)
(***************************************************************************)
BED_HEIGHT == 864
BED_WIDTH == 1728
BITMAP_HEADER_NBYTES == 54
POINTS_PER_INCH == 72
PRINTER_MAX_WAIT == 300
RASTER_POWER_DEFAULT == 40
RASTER_SPEED_DEFAULT == 100
RESOLUTION_DEFAULT == 600
SCREEN_DEFAULT == 8
SECONDS_PER_MIN == 60
VECTOR_FREQUENCY_DEFAULT == 5000
VECTOR_POWER_DEFAULT == 50
VECTOR_SPEED_DEFAULT == 30
HPGLX == 0
HPGLY == 0
\* sizeof (buf)
BufSize == 102400
\* the length of the zero trailer generate_pjl writes
TrailerLen == 4096
\* the range of a C int
INT_MAX == 2147483646 + 1
INT_MIN == -INT_MAX - 1

(***************************************************************************)
(* C arithmetic and byte strings.                                          *)
(***************************************************************************)
Min(a, b) == IF a < b THEN a ELSE b
Max(a, b) == IF a > b THEN a ELSE b

\* C integer division truncates toward zero
CDiv(a, b) ==
    IF (a >= 0) = (b > 0) THEN
        (IF a >= 0 THEN a ELSE -a) \div (IF b > 0 THEN b ELSE -b)
    ELSE -((IF a >= 0 THEN a ELSE -a) \div (IF b > 0 THEN b ELSE -b))

RECURSIVE Digits(_)
Digits(n) ==
    IF n < 10 THEN <<48 + n>> ELSE Append(Digits(n \div 10), 48 + (n % 10))

\* printf "%d" and "%u" (of a value that fits)
Dec(n) == IF n < 0 THEN <<45>> \o Digits(-n) ELSE Digits(n)

RECURSIVE Zeros(_)
Zeros(n) == IF n <= 0 THEN <<>> ELSE <<48>> \o Zeros(n - 1)

\* printf "%0<w>d"
DecPad(n, w) ==
    IF n < 0 THEN <<45>> \o Zeros(w - 1 - Len(Digits(-n))) \o Digits(-n)
    ELSE Zeros(w - Len(Digits(n))) \o Digits(n)

\* buf[k], k counted from 0
BufGet(b, k) == IF k >= 0 /\ k < Len(b) THEN b[k + 1] ELSE 0

\* buf after data was stored from offset off on
BufPut(b, off, data) ==
    [k \in 1..Max(Len(b), off + Len(data)) |->
        IF k > off /\ k <= off + Len(data) THEN data[k - off]
        ELSE IF k <= Len(b) THEN b[k] ELSE 0]

\* sprintf(buf + off, ...) of the formatted text s: the text and its NUL
Sprintf(b, off, s) == BufPut(b, off, s \o <<0>>)

RECURSIVE Strlen(_, _)
Strlen(b, off) == IF BufGet(b, off) = 0 THEN 0 ELSE 1 + Strlen(b, off + 1)

\* the n bytes of buf from offset off on
BufBytes(b, off, n) == [k \in 1..n |-> BufGet(b, off + k - 1)]

\* bytes lo..hi-1 (counted from 0) of a file
FileBytes(f, lo, hi) ==
    IF hi <= lo THEN <<>> ELSE [k \in 1..(hi - lo) |-> f[lo + k]]

(***************************************************************************)
(* main: the option loop and range_checks.                                 *)
(***************************************************************************)
\* the options of main's switch that take a number (atoi of the argument)
NumOpts == {"d", "r", "R", "v", "V", "f", "s"}

\* one case of the switch of the option loop
SetOption(ch, v) ==
    /\ pc = "getopt"
    /\ nopts < MaxOpts
    /\ nopts' = nopts + 1
    /\ resolution' = IF ch = "d" THEN v ELSE resolution
    /\ raster_speed' = IF ch = "r" THEN v ELSE raster_speed
    /\ raster_power' = IF ch = "R" THEN v ELSE raster_power
    /\ vector_speed' = IF ch = "v" THEN v ELSE vector_speed
    /\ vector_power' = IF ch = "V" THEN v ELSE vector_power
    /\ raster_mode' = IF ch = "m" THEN v ELSE raster_mode
    /\ vector_freq' = IF ch = "f" THEN v ELSE vector_freq
    /\ screen_size' = IF ch = "s" THEN v ELSE screen_size
    /\ focus' = IF ch = "a" THEN 1 ELSE focus
    /\ job_name' = IF ch = "n" THEN v ELSE job_name
    /\ UNCHANGED <<epsvars, raster_repeat, x_center, x_repeat, y_center, y_repeat,
                   dimvars, job_user, job_title, buf, filevars, rastervars,
                   tilevars, vectorvars, netvars, retvars, pc>>

\* the values of the numeric options the range checks are run on
RangeVals == {INT_MIN, -1, 0, 1, 9, 10, 11, 74, 75, 76, 100, 101, 150,
              1200, 1201, 5000, 5001, 6000, INT_MAX}

\* a numeric option with any value
GetoptNumber == \E ch \in NumOpts : \E v \in RangeVals : SetOption(ch, v)

\* the options exercised when the whole program runs: raster and vector
\* power switched off, the raster mode
GetoptPower == \E ch \in {"R", "V"} : SetOption(ch, 0)
GetoptMode == \E m \in {"g", "c", "n"} : SetOption("m", m)
\* --autofocus and --job <name>
GetoptFocus == SetOption("a", 1)
GetoptJob == SetOption("n", <<97>>)

\* range_checks without the lower limit of the resolution and of the vector
\* frequency (the two "else if" branches left out)
RangeCheckedNoFloor(c) ==
    [raster_power |-> IF c.raster_power > 100 THEN 100
                      ELSE IF c.raster_power < 0 THEN 0 ELSE c.raster_power,
     raster_speed |-> IF c.raster_speed > 100 THEN 100
                      ELSE IF c.raster_speed < 1 THEN 1 ELSE c.raster_speed,
     resolution   |-> IF c.resolution > 1200 THEN 1200 ELSE c.resolution,
     screen_size  |-> IF c.screen_size < 1 THEN 1 ELSE c.screen_size,
     vector_freq  |-> IF c.vector_freq > 5000 THEN 5000 ELSE c.vector_freq,
     vector_power |-> IF c.vector_power > 100 THEN 100
                      ELSE IF c.vector_power < 0 THEN 0 ELSE c.vector_power,
     vector_speed |-> IF c.vector_speed > 100 THEN 100
                      ELSE IF c.vector_speed < 1 THEN 1 ELSE c.vector_speed]

\* the value range_checks leaves in each bounded field
RangeChecked(c) ==
    [raster_power |-> IF c.raster_power > 100 THEN 100
                      ELSE IF c.raster_power < 0 THEN 0 ELSE c.raster_power,
     raster_speed |-> IF c.raster_speed > 100 THEN 100
                      ELSE IF c.raster_speed < 1 THEN 1 ELSE c.raster_speed,
     resolution   |-> IF c.resolution > 1200 THEN 1200
                      ELSE IF c.resolution < 75 THEN 75 ELSE c.resolution,
     screen_size  |-> IF c.screen_size < 1 THEN 1 ELSE c.screen_size,
     vector_freq  |-> IF c.vector_freq < 10 THEN 10
                      ELSE IF c.vector_freq > 5000 THEN 5000 ELSE c.vector_freq,
     vector_power |-> IF c.vector_power > 100 THEN 100
                      ELSE IF c.vector_power < 0 THEN 0 ELSE c.vector_power,
     vector_speed |-> IF c.vector_speed > 100 THEN 100
                      ELSE IF c.vector_speed < 1 THEN 1 ELSE c.vector_speed]

\* the bounded fields as they stand
Bounded ==
    [raster_power |-> raster_power, raster_speed |-> raster_speed,
     resolution |-> resolution, screen_size |-> screen_size,
     vector_freq |-> vector_freq, vector_power |-> vector_power,
     vector_speed |-> vector_speed]

range_checks ==
    LET c == RangeChecked(Bounded) IN
    /\ raster_power' = c.raster_power
    /\ raster_speed' = c.raster_speed
    /\ resolution' = c.resolution
    /\ screen_size' = c.screen_size
    /\ vector_freq' = c.vector_freq
    /\ vector_power' = c.vector_power
    /\ vector_speed' = c.vector_speed

\* the end of the option loop: range_checks, the user's name from the
\* password database, the job name from the file name ("stdin"), the title
EndOptions ==
    /\ pc = "getopt"
    /\ range_checks
    /\ job_user' = <<117, 115, 101, 114>>                        \* "user"
    /\ job_name' = IF job_name = <<>> THEN <<115, 116, 100, 105, 110>>
                   ELSE job_name                                 \* "stdin"
    /\ job_title' = job_name'
    /\ nopts' = 0
    /\ pc' = "ps_to_eps"
    /\ UNCHANGED <<epsvars, focus, raster_mode, raster_repeat, x_center, x_repeat,
                   y_center, y_repeat, dimvars, buf, filevars, rastervars,
                   tilevars, vectorvars, netvars, retvars>>

(***************************************************************************)
(* printer_connect.                                                        *)
(*   alarm is the number of seconds the process alarm is armed for (0: not *)
(*   armed); slept counts the sleep(1) calls of the running call; sock_open*)
(*   says whether a connected socket is open.                              *)
(***************************************************************************)
\* what happens to one candidate address: socket() fails, connect() fails,
\* connect() succeeds
AddrOutcome == {"nosock", "refused", "ok"}

\* the candidate lists getaddrinfo may return
AddrLists == UNION {[1..n -> AddrOutcome] : n \in 0..MaxAddrs}

\* the loop over the candidates: the descriptor it ends with
RECURSIVE TryAddrs(_, _)
TryAddrs(res, sd) ==
    IF res = <<>> THEN sd
    ELSE IF Head(res) = "ok" THEN 3
    ELSE TryAddrs(Tail(res), -1)

\* a failed attempt that goes on to the next without the sleep(1)
AfterFailedAttemptNoSleep ==
    /\ UNCHANGED slept
    /\ i' = i + 1
    /\ pc' = IF i + 1 < timeout THEN "connect" ELSE "connect_ret"

\* what one pass of the retry loop does once the attempt has failed
AfterFailedAttempt ==
    /\ slept' = slept + 1
    /\ i' = i + 1
    /\ pc' = IF i + 1 < timeout THEN "connect" ELSE "connect_ret"

\* one pass of the retry loop: getaddrinfo, alarm, the candidates, and, when
\* none connected, sleep(1) and the loop's increment
ConnectAttempt ==
    /\ pc = "connect"
    /\ \E error_code \in {0, -2} : \E res \in AddrLists :
         LET sd == IF error_code = 0 THEN TryAddrs(res, socket_descriptor)
                   ELSE socket_descriptor
         IN /\ socket_descriptor' = sd
            /\ sock_open' = (sd >= 0)
            /\ IF sd >= 0
               THEN /\ pc' = "connect_ret"
                    /\ UNCHANGED <<i, slept>>
               ELSE AfterFailedAttempt
    /\ alarm' = SECONDS_PER_MIN
    /\ UNCHANGED <<epsvars, cfgvars, dimvars, jobvars, buf, filevars, rastervars,
                   tilevars, vectorvars, timeout, sent, rcvd, lpdres,
                   localhost, retvars, nopts>>

\* after the loop: failure when the ceiling was reached, else the alarm is
\* disarmed and the socket returned; the locals end with the call
ConnectReturn ==
    /\ pc = "connect_ret"
    /\ IF i >= timeout
       THEN /\ socket_descriptor' = -1
            /\ UNCHANGED alarm
       ELSE /\ alarm' = 0
            /\ UNCHANGED socket_descriptor
    /\ i' = 0
    /\ slept' = 0
    /\ timeout' = 0
    /\ pc' = "send_queue"
    /\ UNCHANGED <<epsvars, cfgvars, dimvars, jobvars, buf, filevars, rastervars,
                   tilevars, vectorvars, sock_open, sent, rcvd, lpdres,
                   localhost, retvars, nopts>>

(***************************************************************************)
(* printer_send.                                                           *)
(*   sent is the sequence of the blocks written to the socket, one per     *)
(*   write() that reached the device; rcvd the acknowledgement bytes read  *)
(*   from it.  lpdres = -1 stands for the indeterminate value of the       *)
(*   uninitialised local: a read() that stores nothing leaves any byte.    *)
(***************************************************************************)
\* static char *queue = ""
queue == <<>>

\* the name up to its first '.'
RECURSIVE StripDomain(_)
StripDomain(name) ==
    IF name = <<>> \/ Head(name) = 46 THEN <<>>
    ELSE <<Head(name)>> \o StripDomain(Tail(name))

\* what gethostname may give: "pc", "pc.lan"
Hostnames == {<<112, 99>>, <<112, 99, 46, 108, 97, 110>>}

\* write(socket_descriptor, data, n): nothing is written to a bad descriptor
Write(data) ==
    sent' = IF socket_descriptor >= 0 THEN Append(sent, data) ELSE sent

\* the entry of printer_send up to the call of printer_connect
SendBegin ==
    /\ pc = "send_begin"
    /\ \E name \in Hostnames : localhost' = StripDomain(name)
    /\ lpdres' = -1
    /\ socket_descriptor' = -1
    /\ i' = 0
    /\ slept' = 0
    /\ timeout' = PRINTER_MAX_WAIT
    /\ pc' = IF 0 < PRINTER_MAX_WAIT THEN "connect" ELSE "connect_ret"
    /\ UNCHANGED <<epsvars, cfgvars, dimvars, jobvars, buf, filevars, rastervars,
                   tilevars, vectorvars, sock_open, alarm, sent, rcvd,
                   retvars, nopts>>

\* "\002<queue>\n"
SendQueue ==
    /\ pc = "send_queue"
    /\ buf' = Sprintf(buf, 0, <<2>> \o queue \o <<10>>)
    /\ Write(BufBytes(buf', 0, Strlen(buf', 0)))
    /\ pc' = "ack_queue"
    /\ UNCHANGED <<epsvars, cfgvars, dimvars, jobvars, filevars, rastervars, tilevars,
                   vectorvars, socket_descriptor, sock_open, i, timeout,
                   alarm, slept, rcvd, lpdres, localhost, retvars, nopts>>

\* a read whose lpdres is not tested: the exchange goes on whatever it holds
AfterAckUnchecked(next) ==
    /\ pc' = next
    /\ UNCHANGED send_ret

\* what the test of lpdres does after a read
AfterAck(next) ==
    IF lpdres' # 0
    THEN /\ send_ret' = "false"
         /\ pc' = "main_sent"
    ELSE /\ pc' = next
         /\ UNCHANGED send_ret

\* read(socket_descriptor, &lpdres, 1) and the test of lpdres
ReadAck(at, next) ==
    /\ pc = at
    /\ \/ \* one byte arrives
          /\ socket_descriptor >= 0
          /\ \E b \in 0..MaxAck :
                /\ lpdres' = b
                /\ rcvd' = Append(rcvd, b)
       \/ \* nothing is stored (bad descriptor, end of file, error)
          /\ IF lpdres = -1 THEN lpdres' \in 0..MaxAck ELSE lpdres' = lpdres
          /\ UNCHANGED rcvd
    /\ AfterAck(next)
    /\ UNCHANGED <<epsvars, cfgvars, dimvars, jobvars, buf, filevars, rastervars,
                   tilevars, vectorvars, socket_descriptor, sock_open, i,
                   timeout, alarm, slept, sent, localhost, raster_ret,
                   pjl_ret, exit_code, nopts>>

AckQueue == ReadAck("ack_queue", "send_cf")
AckCf == ReadAck("ack_cf", "send_control")
AckControl == ReadAck("ack_control", "send_df")
AckDf == ReadAck("ack_df", "send_payload")

\* sprintf(buf + strlen(buf) + 1, ...) of the text s
SprintfNext(b, s) == Sprintf(b, Strlen(b, 0) + 1, s)

\* buf after the seven sprintf calls that build the control file and its
\* announcement
ControlBuf(b) ==
    LET b1 == Sprintf(b, 0, <<72>> \o localhost \o <<10>>)            \* H
        b2 == SprintfNext(b1, <<80>> \o job_user \o <<10>>)            \* P
        b3 == SprintfNext(b2, <<74>> \o job_title \o <<10>>)           \* J
        b4 == SprintfNext(b3, <<108, 100, 102, 65>> \o job_name
                              \o localhost \o <<10>>)                  \* ldfA
        b5 == SprintfNext(b4, <<85, 100, 102, 65>> \o job_name
                              \o localhost \o <<10>>)                  \* UdfA
        b6 == SprintfNext(b5, <<78>> \o job_title \o <<10>>)           \* N
    IN SprintfNext(b6, <<2>> \o Dec(Strlen(b6, 0)) \o <<32, 99, 102, 65>>
                       \o job_name \o localhost \o <<10>>)    \* \002%d cfA

\* the control file is built and announced
SendCf ==
    /\ pc = "send_cf"
    /\ buf' = ControlBuf(buf)
    /\ Write(BufBytes(buf', Strlen(buf', 0) + 1,
                      Strlen(buf', Strlen(buf', 0) + 1)))
    /\ pc' = "ack_cf"
    /\ UNCHANGED <<epsvars, cfgvars, dimvars, jobvars, filevars, rastervars, tilevars,
                   vectorvars, socket_descriptor, sock_open, i, timeout,
                   alarm, slept, rcvd, lpdres, localhost, retvars, nopts>>

\* the control block: buf up to and with its first NUL
SendControl ==
    /\ pc = "send_control"
    /\ Write(BufBytes(buf, 0, Strlen(buf, 0) + 1))
    /\ pc' = "ack_control"
    /\ UNCHANGED <<epsvars, cfgvars, dimvars, jobvars, buf, filevars, rastervars,
                   tilevars, vectorvars, socket_descriptor, sock_open, i,
                   timeout, alarm, slept, rcvd, lpdres, localhost, retvars,
                   nopts>>

\* fstat and the announcement of the data file, "\003<size> dfA<job><host>\n"
SendDf ==
    /\ pc = "send_df"
    /\ \/ \* fstat fails
          /\ send_ret' = "false"
          /\ pc' = "main_sent"
          /\ UNCHANGED <<buf, sent>>
       \/ /\ buf' = Sprintf(buf, 0, <<3>> \o Dec(Len(pjl_file))
                                    \o <<32, 100, 102, 65>> \o job_name
                                    \o localhost \o <<10>>)
          /\ Write(BufBytes(buf', 0, Strlen(buf', 0)))
          /\ pc' = "ack_df"
          /\ UNCHANGED send_ret
    /\ UNCHANGED <<epsvars, cfgvars, dimvars, jobvars, filevars, rastervars, tilevars,
                   vectorvars, socket_descriptor, sock_open, i, timeout,
                   alarm, slept, rcvd, lpdres, localhost, raster_ret, pjl_ret,
                   exit_code, nopts>>

\* one pass of the fread / write loop over the job file
SendPayload ==
    /\ pc = "send_payload"
    /\ LET l == Min(BufSize, Len(pjl_file) - pjl_pos) IN
       IF l > 0
       THEN /\ buf' = BufPut(buf, 0, FileBytes(pjl_file, pjl_pos, pjl_pos + l))
            /\ Write(FileBytes(pjl_file, pjl_pos, pjl_pos + l))
            /\ pjl_pos' = pjl_pos + l
            /\ UNCHANGED pc
       ELSE /\ pc' = "send_close"
            /\ UNCHANGED <<buf, sent, pjl_pos>>
    /\ UNCHANGED <<epsvars, cfgvars, dimvars, jobvars, bitmap_file, bitmap_pos,
                   vector_file, vector_pos, pjl_file, rastervars, tilevars,
                   vectorvars, socket_descriptor, sock_open, i, timeout,
                   alarm, slept, rcvd, lpdres, localhost, retvars, nopts>>

\* printer_disconnect and the successful return
SendClose ==
    /\ pc = "send_close"
    /\ sock_open' = FALSE
    /\ send_ret' = "true"
    /\ pc' = "main_sent"
    /\ UNCHANGED <<epsvars, cfgvars, dimvars, jobvars, buf, filevars, rastervars,
                   tilevars, vectorvars, socket_descriptor, i, timeout, alarm,
                   slept, sent, rcvd, lpdres, localhost, raster_ret, pjl_ret,
                   exit_code, nopts>>

\* main after printer_send: the exit status
MainSent ==
    /\ pc = "main_sent"
    /\ exit_code' = IF send_ret = "true" THEN 0 ELSE 1
    /\ pc' = "exit"
    /\ UNCHANGED <<epsvars, cfgvars, dimvars, jobvars, buf, filevars, rastervars,
                   tilevars, vectorvars, netvars, raster_ret, pjl_ret,
                   send_ret, nopts>>

(***************************************************************************)
(* generate_raster.                                                        *)
(***************************************************************************)
\* big_to_little_endian(position, nbytes): the bytes at offset off of a
\* header, least significant first
\* (a byte of 128 or more shifted by 24 wraps into the sign of the int)
RECURSIVE LittleEndianSum(_, _, _, _)
LittleEndianSum(hdr, off, nbytes, k) ==
    IF k >= nbytes THEN 0
    ELSE (IF k = 3 /\ BufGet(hdr, off + k) >= 128
          THEN (BufGet(hdr, off + k) - 256) * (2 ^ 24)
          ELSE BufGet(hdr, off + k) * (2 ^ (8 * k)))
         + LittleEndianSum(hdr, off, nbytes, k + 1)

big_to_little_endian(hdr, off, nbytes) == LittleEndianSum(hdr, off, nbytes, 0)

\* the origin of the job on the bed, in device units
Base(center, extent) ==
    LET b0 == IF center # 0 THEN center - CDiv(extent, 2) ELSE 0
        b1 == IF b0 < 0 THEN 0 ELSE b0
    IN CDiv(b1 * resolution, POINTS_PER_INCH)

PowerModes == {"c", "g"}

\* the bytes one row takes in the file: the d the row's fread uses
RowBytes == IF raster_mode = "c" THEN d ELSE CDiv(h + 3, 4) * 4

\* d > sizeof (buf), d converted to size_t
TooWide(n) == n < 0 \/ n > BufSize

\* one pixel of a colour row with pass ps taken for the mask ps + 1
ColourPixelFromOne(f0, f1, f2, ps) ==
    LET sat(c) == IF c > 240 THEN 1 ELSE 0
        p == sat(f0) + 2 * sat(f1) + 4 * sat(f2)
        n == 3 - (sat(f0) + sat(f1) + sat(f2))
        v == (IF f0 > 240 THEN 0 ELSE f0) + (IF f1 > 240 THEN 0 ELSE f1)
             + (IF f2 > 240 THEN 0 ELSE f2)
        v1 == IF n # 0 THEN v \div n ELSE 255
    IN 255 - (IF p # ps + 1 THEN 255 ELSE v1)

\* one pixel of a colour row: the channels f0 f1 f2 as stored, the pass
ColourPixel(f0, f1, f2, ps) ==
    LET sat(c) == IF c > 240 THEN 1 ELSE 0
        p == sat(f0) + 2 * sat(f1) + 4 * sat(f2)
        n == 3 - (sat(f0) + sat(f1) + sat(f2))
        v == (IF f0 > 240 THEN 0 ELSE f0) + (IF f1 > 240 THEN 0 ELSE f1)
             + (IF f2 > 240 THEN 0 ELSE f2)
        v1 == IF n # 0 THEN v \div n ELSE 255
        p1 == IF n # 0 THEN p ELSE 0
    IN 255 - (IF p1 # ps THEN 255 ELSE v1)

\* the places of buf the "while (l--)" loop of a colour row reads through f:
\* l starts as the n bytes fread returned, every turn reads *f three times
ColourReads(n) == {3 * (k - 1) + c : k \in 1..n, c \in 0..2}

\* buf after the "while (l--)" loop of a colour row of n stored bytes
ColourRow(b, n, ps) ==
    BufPut(b, 0, [k \in 1..n |->
                    ColourPixel(BufGet(b, 3 * (k - 1)),
                                BufGet(b, 3 * (k - 1) + 1),
                                BufGet(b, 3 * (k - 1) + 2), ps)])

\* buf after the inversion of a grey row of hh pixels
GreyRow(b, hh) == BufPut(b, 0, [k \in 1..hh |-> 255 - BufGet(b, k - 1)])

\* a row left as it is, without the scaling
ScaleRowNone(b, hh) == b

\* buf after the scaling by the raster power
ScaleRow(b, hh) ==
    BufPut(b, 0, [k \in 1..hh |-> (BufGet(b, k - 1) * raster_power) \div 255])

\* buf after the per-mode treatment of a row that was read
Treated(b) ==
    LET hh == IF h < 0 THEN 0 ELSE h IN
    IF raster_mode = "c" THEN ScaleRow(ColourRow(b, d, pass), hh)
    ELSE IF raster_mode = "g" THEN ScaleRow(GreyRow(b, hh), hh)
    ELSE b

\* "for (l = 0; l < h && !buf[l]; l++)": the first place from l on that is
\* hh or holds a byte that is not zero
LeftEdge(b, l, hh) ==
    IF l >= hh THEN l
    ELSE CHOOSE k \in l..hh :
           /\ (k = hh \/ BufGet(b, k) # 0)
           /\ \A j \in l..(k - 1) : BufGet(b, j) = 0

\* a row kept in its stored order
ReverseNone(b, l, r) == b

\* a right edge that keeps the zero bytes at the end of the row
RightEdgeNoTrim(b, l, r) == r

\* "for (r = h - 1; r > l && !buf[r]; r--)": the r the loop ends with, before
\* its r++
RightEdge(b, l, r) ==
    IF r <= l THEN r
    ELSE CHOOSE k \in l..r :
           /\ (k = l \/ BufGet(b, k) # 0)
           /\ \A j \in (k + 1)..r : BufGet(b, j) = 0

\* buf with bytes l..r-1 in reversed order
ReverseRange(b, l, r) ==
    BufPut(b, l, [k \in 1..(r - l) |-> BufGet(b, r - k)])

\* a run scan that lets a run reach 129 bytes (p <= l + 128)
RECURSIVE RunEndLong(_, _, _, _)
RunEndLong(b, l, r, p) ==
    IF p < r /\ p <= l + 128 /\ BufGet(b, p) = BufGet(b, l)
    THEN RunEndLong(b, l, r, p + 1) ELSE p

\* the end of the run of equal bytes that starts at l
RECURSIVE RunEnd(_, _, _, _)
RunEnd(b, l, r, p) ==
    IF p < r /\ p < l + 128 /\ BufGet(b, p) = BufGet(b, l)
    THEN RunEnd(b, l, r, p + 1) ELSE p

\* the end of the literal stretch that starts at l
RECURSIVE LitEnd(_, _, _, _)
LitEnd(b, l, r, p) ==
    IF p < r /\ p < l + 127 /\ (p + 1 = r \/ BufGet(b, p) # BufGet(b, p + 1))
    THEN LitEnd(b, l, r, p + 1) ELSE p

\* the bytes the packing loop stores in pack for buf[l..r-1]
RECURSIVE PackRange(_, _, _)
PackRange(b, l, r) ==
    IF l >= r THEN <<>>
    ELSE LET p == RunEnd(b, l, r, l) IN
         IF p - l >= 2
         THEN <<257 - (p - l), BufGet(b, l)>> \o PackRange(b, p, r)
         ELSE LET q == LitEnd(b, l, r, l) IN
              <<(q - l - 1) % 256>> \o BufBytes(b, l, q - l)
              \o PackRange(b, q, r)

\* the size of the array pack when buf holds n bytes: sizeof (buf) * 5 / 4 + 1
PackSize(n) == CDiv(n * 5, 4) + 1

\* a filler of zero bytes
FillerZero(n) == [k \in 1..((8 - (n % 8)) % 8) |-> 0]

\* the 0x80 bytes written after n packed bytes
Filler(n) == [k \in 1..((8 - (n % 8)) % 8) |-> 128]

\* what is written for one packed line: "\e*b%dW", the bytes, the filler
PackedLine(pk) ==
    <<27, 42, 98>> \o Dec(((Len(pk) + 7) \div 8) * 8) \o <<87>>
    \o pk \o Filler(Len(pk))

\* the entry of generate_raster
RasterCall ==
    /\ basex' = Base(x_center, width)
    /\ basey' = Base(y_center, height)
    /\ repeat' = raster_repeat

\* the locals of generate_raster as they are outside a call
RasterLocalsCleared ==
    /\ repeat' = 0 /\ passes' = 0 /\ base_offset' = 0 /\ h' = 0 /\ d' = 0
    /\ bitmap_header' = <<>>
    /\ pass' = 0 /\ y' = 0 /\ dir' = 0 /\ pack' = <<>>
    /\ offx' = 0 /\ offy' = 0 /\ basex' = 0 /\ basey' = 0

\* return from generate_raster to generate_pjl, which drops the result
RasterReturn(result) ==
    /\ raster_ret' = result
    /\ RasterLocalsCleared
    /\ pc' = "pjl_vector"

\* bitmap_header after the fread that stored the bytes got: the bytes not
\* stored keep what the array held, g where nothing was ever stored
HeaderRead(g, got) ==
    BufPut(IF bitmap_header = <<>> THEN [k \in 1..BITMAP_HEADER_NBYTES |-> g]
           ELSE bitmap_header, 0, got)

\* the head of "while (repeat--)": the bitmap header is read where the stream
\* stands, the geometry taken from it, the raster preamble written
RasterRepeat ==
    /\ pc = "r_repeat"
    /\ IF repeat = 0
       THEN /\ RasterReturn("true")
            /\ UNCHANGED <<dimvars, filevars>>
       ELSE \E g \in {0, 255} :
            LET n == Min(BITMAP_HEADER_NBYTES,
                         Max(0, Len(bitmap_file) - bitmap_pos))
                hdr == HeaderRead(g, FileBytes(bitmap_file, bitmap_pos,
                                               bitmap_pos + n))
                w == big_to_little_endian(hdr, 18, 4)
                ht == big_to_little_endian(hdr, 22, 4)
                hh == IF raster_mode \in PowerModes THEN w
                      ELSE CDiv(w + 7, 8)
            IN /\ repeat' = repeat - 1
               /\ passes' = IF raster_mode = "c" THEN 7 ELSE 1
               /\ bitmap_pos' = bitmap_pos + n
               /\ width' = w
               /\ height' = ht
               /\ base_offset' = big_to_little_endian(hdr, 10, 4)
               /\ bitmap_header' = hdr
               /\ h' = hh
               /\ d' = IF raster_mode \in PowerModes
                       THEN CDiv(hh * 3 + 3, 4) * 4
                       ELSE CDiv(hh + 3, 4) * 4
               /\ pjl_file' = pjl_file
                    \o <<27, 42, 114, 48, 70>>                  \* \e*r0F
                    \o <<27, 38, 121>>
                    \o Dec(IF raster_mode \in PowerModes THEN 100
                           ELSE raster_power) \o <<80>>         \* \e&y%dP
                    \o <<27, 38, 122>> \o Dec(raster_speed)
                    \o <<83>>                                   \* \e&z%dS
                    \o <<27, 42, 114>> \o Dec(ht * y_repeat)
                    \o <<84>>                                   \* \e*r%dT
                    \o <<27, 42, 114>> \o Dec(w * x_repeat)
                    \o <<83>>                                   \* \e*r%dS
                    \o <<27, 42, 98>>
                    \o Dec(IF raster_mode \in PowerModes THEN 7 ELSE 2)
                    \o <<77>>                                   \* \e*b%dM
                    \o <<27, 38, 121, 49, 79>>                  \* \e&y1O
                    \o <<27, 42, 114, 49, 65>>                  \* \e*r1A
               /\ offx' = w * (x_repeat - 1)
               /\ pc' = "r_offx"
               /\ UNCHANGED <<bitmap_file, vector_file, vector_pos, pjl_pos,
                              pass, y, dir, pack, offy, basex, basey,
                              raster_ret>>
    /\ UNCHANGED <<epsvars, cfgvars, jobvars, buf, vectorvars, netvars, pjl_ret,
                   send_ret, exit_code, nopts>>

\* the head of the loop over the tile columns; after it the end of the raster
RasterOffx ==
    /\ pc = "r_offx"
    /\ IF offx >= 0
       THEN /\ offy' = height * (y_repeat - 1)
            /\ pc' = "r_offy"
            /\ UNCHANGED pjl_file
       ELSE /\ pjl_file' = pjl_file \o <<27, 42, 114, 67>> \o <<26, 4>>
            /\ pc' = "r_repeat"
            /\ UNCHANGED offy
    /\ UNCHANGED <<epsvars, cfgvars, dimvars, jobvars, buf, bitmap_file, bitmap_pos,
                   vector_file, vector_pos, pjl_pos, rastervars, offx, basex,
                   basey, vectorvars, netvars, retvars, nopts>>

\* the head of the loop over the tile rows
RasterOffy ==
    /\ pc = "r_offy"
    /\ IF offy >= 0
       THEN /\ pass' = 0
            /\ pc' = "r_pass"
            /\ UNCHANGED offx
       ELSE /\ offx' = offx - width
            /\ pc' = "r_offx"
            /\ UNCHANGED pass
    /\ UNCHANGED <<epsvars, cfgvars, dimvars, jobvars, buf, filevars, repeat, passes,
                   base_offset, bitmap_header, h, d, y, dir, pack, offy, basex, basey,
                   vectorvars, netvars, retvars, nopts>>

\* the head of the loop over the passes: the stream is set to the pixel data
RasterPass ==
    /\ pc = "r_pass"
    /\ IF pass < passes
       THEN /\ dir' = 0
            /\ bitmap_pos' = base_offset
            /\ y' = height - 1
            /\ pc' = "r_row"
            /\ UNCHANGED offy
       ELSE /\ offy' = offy - height
            /\ pc' = "r_offy"
            /\ UNCHANGED <<dir, bitmap_pos, y>>
    /\ UNCHANGED <<epsvars, cfgvars, dimvars, jobvars, buf, bitmap_file, vector_file,
                   vector_pos, pjl_file, pjl_pos, repeat, passes, base_offset, bitmap_header,
                   h, d, pass, pack, offx, basex, basey, vectorvars, netvars,
                   retvars, nopts>>

\* what a line to print writes and leaves, given the treated buf b and its
\* left edge l
LineOut(b, l) ==
    LET r == RightEdge(b, l, h - 1) + 1
        b1 == IF dir # 0 THEN ReverseRange(b, l, r) ELSE b
        pk == PackRange(b1, l, r)
    IN [buf |-> b1,
        pack |-> pk,
        out |-> <<27, 42, 112>> \o Dec(basey + offy + y) \o <<89>>
                \o <<27, 42, 112>>
                \o Dec(basex + offx
                       + (IF raster_mode \in PowerModes THEN l ELSE l * 8))
                \o <<88>>
                \o <<27, 42, 98>> \o Dec(IF dir # 0 THEN -(r - l) ELSE r - l)
                \o <<65>>
                \o PackedLine(pk)]

\* one scan line: read, treated, trimmed, reversed, packed, written
RasterRow ==
    /\ pc = "r_row"
    /\ IF y < 0
       THEN /\ pass' = pass + 1
            /\ pc' = "r_pass"
            /\ UNCHANGED <<buf, bitmap_pos, pjl_file, y, dir, pack, repeat,
                           passes, base_offset, bitmap_header, h, d, tilevars, raster_ret>>
       ELSE IF TooWide(RowBytes)
       THEN /\ RasterReturn("false")
            /\ UNCHANGED <<buf, bitmap_pos, pjl_file>>
       ELSE LET l0 == Min(RowBytes, Max(0, Len(bitmap_file) - bitmap_pos))
                b0 == BufPut(buf, 0, FileBytes(bitmap_file, bitmap_pos,
                                               bitmap_pos + l0))
            IN /\ bitmap_pos' = bitmap_pos + l0
               /\ IF l0 # RowBytes
                  THEN /\ buf' = b0
                       /\ RasterReturn("false")
                       /\ UNCHANGED pjl_file
                  ELSE LET b1 == Treated(b0)
                           l == LeftEdge(b1, 0, h)
                       IN /\ IF l < h
                             THEN LET o == LineOut(b1, l) IN
                                  /\ buf' = o.buf
                                  /\ pack' = o.pack
                                  /\ pjl_file' = pjl_file \o o.out
                                  /\ dir' = 1 - dir
                             ELSE /\ buf' = b1
                                  /\ UNCHANGED <<pack, pjl_file, dir>>
                          /\ y' = y - 1
                          /\ UNCHANGED <<pc, pass, repeat, passes,
                                         base_offset, bitmap_header, h, d, tilevars,
                                         raster_ret>>
    /\ UNCHANGED <<epsvars, cfgvars, dimvars, jobvars, bitmap_file, vector_file,
                   vector_pos, pjl_pos, vectorvars, netvars, pjl_ret,
                   send_ret, exit_code, nopts>>

(***************************************************************************)
(* generate_vector.                                                        *)
(***************************************************************************)
IsAlpha(c) == (c >= 65 /\ c <= 90) \/ (c >= 97 /\ c <= 122)
IsSpace(c) == c \in {9, 10, 11, 12, 13, 32}
IsDigit(c) == c >= 48 /\ c <= 57

\* fgets: the bytes of the file from pos up to and with the next newline
RECURSIVE LineEnd(_, _)
LineEnd(f, k) ==
    IF k > Len(f) THEN Len(f) ELSE IF f[k] = 10 THEN k ELSE LineEnd(f, k + 1)

Fgets(f, pos) ==
    FileBytes(f, pos, Min(LineEnd(f, pos + 1), pos + BufSize - 1))

\* the digits of s from k on: [val, next]
RECURSIVE ScanDigits(_, _, _)
ScanDigits(s, k, acc) ==
    IF k <= Len(s) /\ IsDigit(s[k]) THEN ScanDigits(s, k + 1, acc * 10 + s[k] - 48)
    ELSE [val |-> acc, next |-> k]

RECURSIVE SkipSpace(_, _)
SkipSpace(s, k) ==
    IF k <= Len(s) /\ IsSpace(s[k]) THEN SkipSpace(s, k + 1) ELSE k

\* the conversion %d of sscanf on s from k on: blanks, a sign, digits
ScanInt(s, k) ==
    LET k0 == SkipSpace(s, k)
        signed == k0 <= Len(s) /\ s[k0] \in {43, 45}
        k1 == IF signed THEN k0 + 1 ELSE k0
        dg == ScanDigits(s, k1, 0)
    IN IF dg.next = k1 THEN [ok |-> FALSE, val |-> 0, next |-> k]
       ELSE [ok |-> TRUE,
             val |-> IF signed /\ s[k0] = 45 THEN -dg.val ELSE dg.val,
             next |-> dg.next]

\* sscanf(s, "%d,%d", &a, &b): the count and the values stored
Sscanf2(s) ==
    LET r1 == ScanInt(s, 1) IN
    IF ~r1.ok THEN [n |-> 0, a |-> 0, b |-> 0]
    ELSE IF ~(r1.next <= Len(s) /\ s[r1.next] = 44)
    THEN [n |-> 1, a |-> r1.val, b |-> 0]
    ELSE LET r2 == ScanInt(s, r1.next + 1) IN
         IF r2.ok THEN [n |-> 2, a |-> r1.val, b |-> r2.val]
         ELSE [n |-> 1, a |-> r1.val, b |-> 0]

\* values an uninitialised int of the stack may hold
Garbage == {-1, 7}

\* "%d,%d" of a point, offset to the tile
Point(px, py) ==
    Dec(basex + offx + px + HPGLX) \o <<44>> \o Dec(basey + offy + py + HPGLY)

\* the locals of generate_vector as a record
VecLocals ==
    [up |-> up, newline |-> newline, started |-> started, sx |-> sx,
     sy |-> sy, lx |-> lx, ly |-> ly, power |-> power, out |-> <<>>]

\* case 'M'
VecMove(args) ==
    LET sc == Sscanf2(args) IN
    IF sc.n = 2
    THEN [VecLocals EXCEPT !.sx = sc.b, !.sy = sc.a, !.newline = 1]
    ELSE VecLocals

\* case 'C'
VecClose ==
    IF newline = 0 /\ up = 0 /\ (lx # sx \/ ly # sy)
    THEN [VecLocals EXCEPT !.out = <<44>> \o Point(sx, sy)]
    ELSE VecLocals

\* the power, speed and frequency commands of a power change to x
PowerOut(x) ==
    LET epower == CDiv(x * vector_power + 50, 100)
        scaled == epower # 0 /\ x < 100
        r0 == CDiv(10000, x)
        q1 == CDiv(10000, vector_speed)
        r1 == IF q1 < r0 THEN q1 ELSE r0
        q2 == CDiv(500000, vector_freq)
        r == IF q2 < r1 THEN q2 ELSE r1
        epower2 == IF scaled THEN CDiv(50 + epower * r, 100) ELSE epower
        espeed == IF scaled THEN CDiv(50 + vector_speed * r, 100)
                  ELSE vector_speed
        efreq == IF scaled THEN CDiv(50 + espeed * r, 100) ELSE vector_freq
    IN IF vector_speed # 0 /\ vector_speed < 100
       THEN <<59, 90, 83>> \o DecPad(espeed, 3) \o <<59, 88, 82>>
            \o DecPad(efreq, 4) \o <<59>>                    \* ;ZS%03d;XR%04d;
            \o <<59, 89, 80>> \o DecPad(epower2, 3) \o <<59>>       \* ;YP%03d;
       ELSE <<59, 89, 80>> \o DecPad(epower, 3) \o <<59>>

\* case 'P'
VecPower(args) ==
    LET sc == ScanInt(args, 1) IN
    IF sc.ok /\ sc.val # power
    THEN [VecLocals EXCEPT
            !.power = sc.val, !.started = 1, !.up = 1,
            !.out = (IF up = 0 THEN <<59, 80, 85>> ELSE <<>>)       \* ;PU
                    \o PowerOut(sc.val)]
    ELSE VecLocals

\* case 'L' with the pen taken to be up at every line
VecLinePenUp(args, gx, gy) ==
    LET sc == Sscanf2(args)
        x == IF sc.n = 2 THEN sc.b ELSE gx
        yy == IF sc.n >= 1 THEN sc.a ELSE gy
    IN [VecLocals EXCEPT
          !.started = 1, !.newline = 0, !.up = 0, !.lx = x, !.ly = yy,
          !.out = (IF newline # 0
                   THEN (IF up = 0 THEN <<59>> ELSE <<>>)
                        \o <<80, 85>> \o Point(sx, sy)
                   ELSE <<>>)
                  \o <<59, 80, 68>>
                  \o (IF sc.n = 2 THEN Point(sc.b, sc.a) ELSE <<>>)]

\* case 'L': gx, gy are what the unassigned x, y hold
VecLine(args, gx, gy) ==
    LET sc == Sscanf2(args)
        up1 == IF newline # 0 THEN 1 ELSE up
        x == IF sc.n = 2 THEN sc.b ELSE gx
        yy == IF sc.n >= 1 THEN sc.a ELSE gy
    IN [VecLocals EXCEPT
          !.started = 1, !.newline = 0, !.up = 0, !.lx = x, !.ly = yy,
          !.out = (IF newline # 0
                   THEN (IF up = 0 THEN <<59>> ELSE <<>>)
                        \o <<80, 85>> \o Point(sx, sy)              \* PU%d,%d
                   ELSE <<>>)
                  \o (IF up1 # 0 THEN <<59, 80, 68>> ELSE <<44>>)   \* ;PD or ,
                  \o (IF sc.n = 2 THEN Point(sc.b, sc.a) ELSE <<>>)]

\* the switch on the command letter c
VecCmd(c, args, gx, gy) ==
    IF c = 77 THEN VecMove(args)
    ELSE IF c = 67 THEN VecClose
    ELSE IF c = 80 THEN VecPower(args)
    ELSE IF c = 76 THEN VecLine(args, gx, gy)
    ELSE VecLocals

\* "IN;XR%04d;YP%03d;ZS%03d;"
Preamble ==
    <<73, 78, 59>> \o <<88, 82>> \o DecPad(vector_freq, 4) \o <<59>>
    \o <<89, 80>> \o DecPad(vector_power, 3) \o <<59>>
    \o <<90, 83>> \o DecPad(vector_speed, 3) \o <<59>>

\* the entry of generate_vector
VectorCall ==
    /\ up' = 1 /\ newline' = 1 /\ started' = 0
    /\ sx' = 0 /\ sy' = 0 /\ lx' = 0 /\ ly' = 0 /\ power' = 100
    /\ passstart' = 0
    /\ basex' = Base(x_center, width)
    /\ basey' = Base(y_center, height)
    /\ offx' = 0
    /\ offy' = height * (y_repeat - 1)

\* the head of the loop over the tile rows; after it the end of the vector
\* block and the return to generate_pjl
VectorOffy ==
    /\ pc = "v_offy"
    /\ IF offy >= 0
       THEN /\ offx' = width * (x_repeat - 1)
            /\ pc' = "v_offx"
            /\ UNCHANGED <<pjl_file, offy, basex, basey, vectorvars>>
       ELSE /\ pjl_file' = pjl_file
                 \o (IF started # 0
                     THEN (IF up = 0 THEN <<59>> ELSE <<>>)
                          \o <<27, 37, 48, 66>>                     \* \e%0B
                     ELSE <<>>)
                 \o <<27, 37, 49, 66, 80, 85>>                      \* \e%1BPU
            /\ up' = 0 /\ newline' = 0 /\ started' = 0
            /\ sx' = 0 /\ sy' = 0 /\ lx' = 0 /\ ly' = 0 /\ power' = 0
            /\ passstart' = 0
            /\ offx' = 0 /\ offy' = 0 /\ basex' = 0 /\ basey' = 0
            /\ pc' = "pjl_footer"
    /\ UNCHANGED <<epsvars, cfgvars, dimvars, jobvars, buf, bitmap_file, bitmap_pos,
                   vector_file, vector_pos, pjl_pos, rastervars, netvars,
                   retvars, nopts>>

\* the head of the loop over the tile columns: the stream is rewound
VectorOffx ==
    /\ pc = "v_offx"
    /\ IF offx >= 0
       THEN /\ passstart' = 0
            /\ vector_pos' = 0
            /\ pc' = "v_line"
            /\ UNCHANGED offy
       ELSE /\ offy' = offy - height
            /\ pc' = "v_offy"
            /\ UNCHANGED <<passstart, vector_pos>>
    /\ UNCHANGED <<epsvars, cfgvars, dimvars, jobvars, buf, bitmap_file, bitmap_pos,
                   vector_file, pjl_file, pjl_pos, rastervars, offx, basex,
                   basey, up, newline, started, sx, sy, lx, ly, power,
                   netvars, retvars, nopts>>

\* the end of the while loop over the lines of one tile
VectorTileDone ==
    /\ offx' = offx - width
    /\ pc' = "v_offx"

\* one line of the vector stream
VectorLine ==
    /\ pc = "v_line"
    /\ IF vector_pos >= Len(vector_file)
       THEN /\ VectorTileDone
            /\ UNCHANGED <<buf, vector_pos, pjl_file, vectorvars>>
       ELSE LET line == Fgets(vector_file, vector_pos)
                b == Sprintf(buf, 0, line)
                c == line[1]
            IN /\ buf' = b
               /\ vector_pos' = vector_pos + Len(line)
               /\ IF ~IsAlpha(c)
                  THEN UNCHANGED <<pjl_file, vectorvars, offx, pc>>
                  ELSE /\ passstart' = 1
                       /\ \E gx \in Garbage : \E gy \in Garbage :
                            LET v == VecCmd(c, BufBytes(b, 1, Strlen(b, 1)),
                                            gx, gy)
                            IN /\ up' = v.up
                               /\ newline' = v.newline
                               /\ started' = v.started
                               /\ sx' = v.sx /\ sy' = v.sy
                               /\ lx' = v.lx /\ ly' = v.ly
                               /\ power' = v.power
                               /\ pjl_file' = pjl_file
                                    \o (IF passstart = 0 THEN Preamble
                                        ELSE <<>>)
                                    \o v.out
                       /\ IF c = 88 THEN VectorTileDone
                          ELSE UNCHANGED <<offx, pc>>
    /\ UNCHANGED <<epsvars, cfgvars, dimvars, jobvars, bitmap_file, bitmap_pos,
                   vector_file, pjl_pos, rastervars, offy, basex, basey,
                   netvars, retvars, nopts>>

(***************************************************************************)
(* generate_pjl and the rest of main.                                      *)
(***************************************************************************)
ZeroBytes(n) == [k \in 1..n |-> 0]

\* the job header and the page setup
PjlHead ==
    <<27, 37, 45, 49, 50, 51, 52, 53, 88,
      64, 80, 74, 76, 32, 74, 79, 66, 32, 78, 65, 77, 69, 61>>
    \o job_title \o <<13, 10>>               \* \e%-12345X@PJL JOB NAME=%s\r\n
    \o <<27, 69, 64, 80, 74, 76, 32, 69, 78, 84, 69, 82, 32, 76, 65, 78, 71,
         85, 65, 71, 69, 61, 80, 67, 76, 13, 10>>
                                             \* \eE@PJL ENTER LANGUAGE=PCL\r\n
    \o <<27, 38, 121>> \o Dec(focus) \o <<65>>                  \* \e&y%dA
    \o <<27, 38, 108, 48, 85>>                                  \* \e&l0U
    \o <<27, 38, 108, 48, 90>>                                  \* \e&l0Z
    \o <<27, 38, 117>> \o Dec(resolution) \o <<68>>             \* \e&u%dD
    \o <<27, 42, 112, 48, 88>>                                  \* \e*p0X
    \o <<27, 42, 112, 48, 89>>                                  \* \e*p0Y
    \o <<27, 42, 116>> \o Dec(resolution) \o <<82>>             \* \e*t%dR

\* what precedes the raster block
RasterIntro == <<27, 38, 121, 48, 67>>                          \* \e&y0C

\* the page reset that precedes the vector block
VectorIntro ==
    <<27, 69, 64, 80, 74, 76, 32, 69, 78, 84, 69, 82, 32, 76, 65, 78, 71,
      85, 65, 71, 69, 61, 80, 67, 76, 13, 10>>
    \o <<27, 42, 114, 48, 70>>                                  \* \e*r0F
    \o <<27, 42, 114>> \o Dec(height * y_repeat) \o <<84>>      \* \e*r%dT
    \o <<27, 42, 114>> \o Dec(width * x_repeat) \o <<83>>       \* \e*r%dS
    \o <<27, 42, 114, 49, 65>>                                  \* \e*r1A
    \o <<27, 42, 114, 67>>                                      \* \e*rC
    \o <<27, 37, 49, 66>>                                       \* \e%1B

\* reset, exit language, end of job
PjlFoot ==
    <<27, 69>> \o <<27, 37, 45, 49, 50, 51, 52, 53, 88>>
    \o <<64, 80, 74, 76, 32, 69, 79, 74, 32, 13, 10>>

\* a padding loop that runs once too often (i <= 4096)
TrailerOneMore == ZeroBytes(TrailerLen + 1)

\* the zero bytes that pad out the job
Trailer == ZeroBytes(TrailerLen)

\* the raster pass decided on the power alone, the mode not looked at
RasterWantedAnyMode == raster_power # 0

\* whether generate_pjl runs the raster pass, the vector pass
RasterWanted == raster_power # 0 /\ raster_mode # "n"
VectorWanted == vector_power # 0

\* generate_pjl up to the raster pass
PjlHeader ==
    /\ pc = "pjl_header"
    /\ IF RasterWanted
       THEN /\ pjl_file' = pjl_file \o PjlHead \o RasterIntro
            /\ RasterCall
            /\ pc' = "r_repeat"
       ELSE /\ pjl_file' = pjl_file \o PjlHead
            /\ pc' = "pjl_vector"
            /\ UNCHANGED <<repeat, basex, basey>>
    /\ UNCHANGED <<epsvars, cfgvars, dimvars, jobvars, buf, bitmap_file, bitmap_pos,
                   vector_file, vector_pos, pjl_pos, passes, base_offset, bitmap_header, h,
                   d, pass, y, dir, pack, offx, offy, vectorvars, netvars,
                   retvars, nopts>>

\* generate_pjl between the passes
PjlVector ==
    /\ pc = "pjl_vector"
    /\ IF VectorWanted
       THEN /\ pjl_file' = pjl_file \o VectorIntro
            /\ VectorCall
            /\ pc' = "v_offy"
       ELSE /\ pc' = "pjl_footer"
            /\ UNCHANGED <<pjl_file, tilevars, vectorvars>>
    /\ UNCHANGED <<epsvars, cfgvars, dimvars, jobvars, buf, bitmap_file, bitmap_pos,
                   vector_file, vector_pos, pjl_pos, rastervars, netvars,
                   retvars, nopts>>

\* the footer, the trailer and the return of generate_pjl
PjlFooter ==
    /\ pc = "pjl_footer"
    /\ pjl_file' = pjl_file \o PjlFoot \o Trailer
    /\ pjl_ret' = "true"
    /\ pc' = "main_pjl"
    /\ UNCHANGED <<epsvars, cfgvars, dimvars, jobvars, buf, bitmap_file, bitmap_pos,
                   vector_file, vector_pos, pjl_pos, rastervars, tilevars,
                   vectorvars, netvars, raster_ret, send_ret, exit_code,
                   nopts>>

\* main after generate_pjl: on failure exit 1; else the bitmap and vector
\* files are closed and removed, the job file reopened and printer_send called
MainPjl ==
    /\ pc = "main_pjl"
    /\ IF pjl_ret # "true"
       THEN /\ exit_code' = 1
            /\ pc' = "exit"
            /\ UNCHANGED filevars
       ELSE /\ bitmap_file' = <<>> /\ bitmap_pos' = 0
            /\ vector_file' = <<>> /\ vector_pos' = 0
            /\ pjl_pos' = 0
            /\ pc' = "send_begin"
            /\ UNCHANGED <<pjl_file, exit_code>>
    /\ UNCHANGED <<epsvars, cfgvars, dimvars, jobvars, buf, rastervars, tilevars,
                   vectorvars, netvars, raster_ret, pjl_ret, send_ret, nopts>>

(***************************************************************************)
(* The artifacts ghostscript leaves: a bitmap and a vector stream.         *)
(***************************************************************************)
\* the four bytes of n, least significant first
LE32(n) == [k \in 1..4 |-> (n \div (256 ^ (k - 1))) % 256]

\* a bitmap file: the 54-byte header with the data offset at 10, the width
\* at 18 and the height at 22, then the pixel data
MkBmp(w, ht, data) ==
    <<66, 77>> \o ZeroBytes(8) \o LE32(BITMAP_HEADER_NBYTES) \o ZeroBytes(4)
    \o LE32(w) \o LE32(ht) \o ZeroBytes(28) \o data

\* 2 x 2 pixels with all their rows; the same with one row of four bytes
\* only; a bitmap wider than buf
BmpWhole == MkBmp(2, 2, <<192, 0, 0, 0, 64, 0, 0, 0,
                          10, 20, 30, 250, 5, 5, 0, 0>>)
BmpShort == MkBmp(2, 2, <<192, 0, 0, 0>>)
BmpWide == MkBmp(900000, 1, <<>>)
Bitmaps == {BmpWhole, BmpShort, BmpWide}

\* "M0,0\nP50\nL100,0\nC\nX\n" and "X\n"
VecPath == <<77, 48, 44, 48, 10, 80, 53, 48, 10,
             76, 49, 48, 48, 44, 48, 10, 67, 10, 88, 10>>
VecEmpty == <<88, 10>>
(***************************************************************************)
(* ps_to_eps: the comment lines that head the document are copied one by   *)
(* one, each looked at for the page bounding box and for the "%!" line,    *)
(* after which the prologue and the screen set-up are inserted; the rest   *)
(* is copied unread.                                                       *)
(***************************************************************************)
FLIP == 0

ToLower(c) == IF c >= 65 /\ c <= 90 THEN c + 32 ELSE c

\* strncasecmp(s, lit, strlen(lit)) == 0
StrNCaseEq(s, lit) ==
    /\ Len(s) >= Len(lit)
    /\ \A k \in 1..Len(lit) : ToLower(s[k]) = ToLower(lit[k])

\* sscanf(s, "%d %d %d %d", ...): the count and the values stored
Sscanf4(s) ==
    LET r1 == ScanInt(s, 1)
        r2 == ScanInt(s, r1.next)
        r3 == ScanInt(s, r2.next)
        r4 == ScanInt(s, r3.next)
    IN [n |-> IF ~r1.ok THEN 0 ELSE IF ~r2.ok THEN 1 ELSE IF ~r3.ok THEN 2
              ELSE IF ~r4.ok THEN 3 ELSE 4,
        llx |-> r1.val, lly |-> r2.val, urx |-> r3.val, ury |-> r4.val]

\* "%%PageBoundingBox:"
PageBoundingBox ==
    <<37, 37, 80, 97, 103, 101, 66, 111, 117, 110, 100, 105, 110, 103, 66,
      111, 120, 58>>

\* the redefinition of stroke and showpage written after the "%!" line
Prologue ==
    <<47, 61, 61, 61, 123, 40, 32, 32, 32, 32, 32, 32, 32, 32, 41, 99, 118,
      115, 32, 112, 114, 105, 110, 116, 125, 100, 101, 102, 47, 115, 116,
      114, 111, 107, 101, 123, 99, 117, 114, 114, 101, 110, 116, 114, 103,
      98, 99, 111, 108, 111, 114, 32, 48, 46, 48, 32, 101, 113, 32, 101,
      120, 99, 104, 32, 48, 46, 48, 32, 101, 113, 32, 97, 110, 100, 32,
      101, 120, 99, 104, 32, 48, 46, 48, 32, 110, 101, 32, 97, 110, 100,
      123, 40, 80, 41, 61, 61, 61, 32, 99, 117, 114, 114, 101, 110, 116,
      114, 103, 98, 99, 111, 108, 111, 114, 32, 112, 111, 112, 32, 112,
      111, 112, 32, 49, 48, 48, 32, 109, 117, 108, 32, 114, 111, 117, 110,
      100, 32, 32, 99, 118, 105, 32, 61, 32, 102, 108, 97, 116, 116, 101,
      110, 112, 97, 116, 104, 123, 116, 114, 97, 110, 115, 102, 111, 114,
      109, 40, 77, 41, 61, 61, 61, 32, 114, 111, 117, 110, 100, 32, 99,
      118, 105, 32, 61, 61, 61, 40, 44, 41, 61, 61, 61, 32, 114, 111, 117,
      110, 100, 32, 99, 118, 105, 32, 61, 125, 123, 116, 114, 97, 110, 115,
      102, 111, 114, 109, 40, 76, 41, 61, 61, 61, 32, 114, 111, 117, 110,
      100, 32, 99, 118, 105, 32, 61, 61, 61, 40, 44, 41, 61, 61, 61, 32,
      114, 111, 117, 110, 100, 32, 99, 118, 105, 32, 61, 125, 123, 125,
      123, 40, 67, 41, 61, 125, 112, 97, 116, 104, 102, 111, 114, 97, 108,
      108, 32, 110, 101, 119, 112, 97, 116, 104, 125, 123, 115, 116, 114,
      111, 107, 101, 125, 105, 102, 101, 108, 115, 101, 125, 98, 105, 110,
      100, 32, 100, 101, 102, 47, 115, 104, 111, 119, 112, 97, 103, 101,
      123, 40, 88, 41, 61, 32, 115, 104, 111, 119, 112, 97, 103, 101, 125,
      98, 105, 110, 100, 32, 100, 101, 102, 10>>

\* "{0.5 ge{1}{0}ifelse}settransfer\n"
Threshold ==
    <<123, 48, 46, 53, 32, 103, 101, 123, 49, 125, 123, 48, 125, 105, 102,
      101, 108, 115, 101, 125, 115, 101, 116, 116, 114, 97, 110, 115, 102,
      101, 114, 10>>

\* "{dup 0 ne{%d %d div add}if}settransfer\n"
Overprint(a, b) ==
    <<123, 100, 117, 112, 32, 48, 32, 110, 101, 123>> \o Dec(a)
      \o <<32>> \o Dec(b)
      \o <<32, 100, 105, 118, 32, 97, 100, 100, 125, 105, 102, 125, 115, 101, 116, 116, 114, 97, 110, 115, 102, 101, 114, 10>>

\* what follows the prologue: nothing in the colour and grey modes, the
\* threshold for screen size 0, else the overprint transfer at 600 dpi and
\* above and the halftone screen
ScreenSetup(mode, screen, res) ==
    IF mode \in {"c", "g"} THEN <<>>
    ELSE IF screen = 0 THEN Threshold
    ELSE (IF res >= 600 THEN Overprint(CDiv(res, 600), screen) ELSE <<>>)
         \o Dec(CDiv(res, screen)) \o <<32, 51, 48, 123>>        \* "%d 30{"
         \o (IF screen > 0
             THEN <<112, 111, 112, 32, 97, 98, 115, 32, 49, 32, 101, 120,
                    99, 104, 32, 115, 117, 98>>       \* "pop abs 1 exch sub"
             ELSE <<49, 56, 48, 32, 109, 117, 108, 32, 99, 111, 115, 32,
                    101, 120, 99, 104, 32, 49, 56, 48, 32, 109, 117, 108,
                    32, 99, 111, 115, 32, 97, 100, 100, 32, 50, 32, 100,
                    105, 118>>   \* "180 mul cos exch 180 mul cos add 2 div"
            )
         \o <<125, 115, 101, 116, 115, 99, 114, 101, 101, 110, 10>>
                                                           \* "}setscreen\n"

\* what the bounding box branch writes: "/setpagedevice{pop}def\n", the
\* translation, the flip
BoxOut(sc) ==
    <<47, 115, 101, 116, 112, 97, 103, 101, 100, 101, 118, 105, 99, 101,
      123, 112, 111, 112, 125, 100, 101, 102, 10>>
      \o (IF sc.llx # 0 \/ sc.lly # 0
          THEN Dec(-sc.llx) \o <<32>> \o Dec(-sc.lly)
               \o <<32, 116, 114, 97, 110, 115, 108, 97, 116, 101, 10>>
          ELSE <<>>)
      \o (IF FLIP # 0
          THEN Dec(sc.urx - sc.llx)
               \o <<32, 48, 32, 116, 114, 97, 110, 115, 108, 97, 116, 101, 32, 45, 49, 32, 49, 32, 115, 99, 97, 108, 101, 10>>
          ELSE <<>>)

\* the bounding box branch on a comment line: the line is scanned from
\* buf + 14 (sc is what sscanf stored); st is what the loop did so far
EpsBoxed(line, sc, st) ==
    IF StrNCaseEq(line, PageBoundingBox) /\ sc.n = 4
    THEN [st EXCEPT !.width = sc.urx - sc.llx,
                    !.height = sc.ury - sc.lly,
                    !.out = @ \o BoxOut(sc)]
    ELSE st

\* the "%!" branch on a comment line
EpsHeaded(line, cfg, st) ==
    IF StrNCaseEq(line, <<37, 33>>)
    THEN [st EXCEPT !.out = @ \o Prologue
                       \o ScreenSetup(cfg.mode, cfg.screen, cfg.res)]
    ELSE st

\* one turn of the first loop of ps_to_eps on the line read at offset pos:
\* the line is copied, and a comment line goes through the two branches
EpsLine(line, cfg, pos, st) ==
    IF line[1] # 37
    THEN [st EXCEPT !.out = @ \o line, !.pos = pos + Len(line),
                    !.buf = Sprintf(@, 0, line)]
    ELSE EpsHeaded(line, cfg,
             EpsBoxed(line, Sscanf4(SubSeq(line, 15, Len(line))),
                 [st EXCEPT !.out = @ \o line, !.pos = pos + Len(line),
                            !.buf = Sprintf(@, 0, line)]))

\* the first loop of ps_to_eps from offset pos of the document doc on, under
\* the configuration cfg: it ends with the file or after the first line
\* that is not a comment
RECURSIVE EpsLines(_, _, _, _)
EpsLines(doc, cfg, pos, st) ==
    LET line == Fgets(doc, pos) IN
    IF line = <<>> THEN st
    ELSE IF line[1] # 37 THEN EpsLine(line, cfg, pos, st)
    ELSE EpsLines(doc, cfg, pos + Len(line), EpsLine(line, cfg, pos, st))

\* the last block fread stored in buf
LastBlock(s) == SubSeq(s, ((Len(s) - 1) \div BufSize) * BufSize + 1, Len(s))

\* the second loop of ps_to_eps: the rest of the document is copied block by
\* block after what the first loop (hd) did; what is written, the page size
\* and buf
EpsTail(doc, hd) ==
    LET rest == FileBytes(doc, hd.pos, Len(doc))
    IN [out |-> hd.out \o rest, width |-> hd.width, height |-> hd.height,
        buf |-> IF rest = <<>> THEN hd.buf
                ELSE BufPut(hd.buf, 0, LastBlock(rest))]

\* ps_to_eps of the document doc under the configuration cfg, the page w by
\* hh and buf holding b
ps_to_eps(doc, cfg, w, hh, b) ==
    EpsTail(doc, EpsLines(doc, cfg, 0, [out |-> <<>>, pos |-> 0, buf |-> b,
                                        width |-> w, height |-> hh]))

\* what ps_to_eps reads of the configuration
ScreenConfig ==
    [mode |-> raster_mode, screen |-> screen_size, res |-> resolution]

\* the encapsulated document ps_to_eps writes in this state
EpsDocument == ps_to_eps(ps_file, ScreenConfig, width, height, buf).out

\* main converting the document: ps_to_eps writes the encapsulated document
PsToEps ==
    /\ pc = "ps_to_eps"
    /\ \E r \in {ps_to_eps(ps_file, ScreenConfig, width, height, buf)} :
          /\ eps_file' = r.out
          /\ width' = r.width
          /\ height' = r.height
          /\ buf' = r.buf
    /\ pc' = "gs"
    /\ UNCHANGED <<ps_file, cfgvars, jobvars, filevars, rastervars, tilevars,
                   vectorvars, netvars, retvars, nopts>>

\* a document: "%!PS-Adobe-3.0", "%%PageBoundingBox: 0 0 72 36", "newpath",
\* "showpage"
PsDoc ==
    <<37, 33, 80, 83, 45, 65, 100, 111, 98, 101, 45, 51, 46, 48, 10, 37,
      37, 80, 97, 103, 101, 66, 111, 117, 110, 100, 105, 110, 103, 66, 111,
      120, 58, 32, 48, 32, 48, 32, 55, 50, 32, 51, 54, 10, 110, 101, 119,
      112, 97, 116, 104, 10, 115, 104, 111, 119, 112, 97, 103, 101, 10>>

\* what ps_to_eps writes for PsDoc in the raster mode mode, the rest of the
\* configuration at its defaults: the prologue and the screen set-up after
\* the first line; and what it leaves in buf: "showpage\n" over the longest
\* line read
EpsOfPsDoc(mode) ==
    SubSeq(PsDoc, 1, 15) \o Prologue
      \o ScreenSetup(mode, SCREEN_DEFAULT, RESOLUTION_DEFAULT)
      \o SubSeq(PsDoc, 16, Len(PsDoc))
BufOfPsDoc ==
    BufPut(Sprintf(<<>>, 0, SubSeq(PsDoc, 16, 44)), 0,
           SubSeq(PsDoc, 53, Len(PsDoc)))

VectorFiles == {VecPath, VecEmpty}

\* execute_ghostscript and the opening of the three files
Ghostscript ==
    /\ pc = "gs"
    /\ bitmap_file' \in Bitmaps
    /\ vector_file' \in VectorFiles
    /\ bitmap_pos' = 0
    /\ vector_pos' = 0
    /\ pjl_file' = <<>>
    /\ pjl_pos' = 0
    /\ pc' = "pjl_header"
    /\ UNCHANGED <<epsvars, cfgvars, dimvars, jobvars, buf, rastervars, tilevars,
                   vectorvars, netvars, retvars, nopts>>

(***************************************************************************)
(* The specifications.                                                     *)
(***************************************************************************)
\* the static variables as the program starts
InitStatics ==
    /\ focus = 0 /\ resolution = RESOLUTION_DEFAULT /\ raster_mode = "m"
    /\ raster_speed = RASTER_SPEED_DEFAULT
    /\ raster_power = RASTER_POWER_DEFAULT
    /\ raster_repeat = 1 /\ screen_size = SCREEN_DEFAULT
    /\ vector_speed = VECTOR_SPEED_DEFAULT
    /\ vector_power = VECTOR_POWER_DEFAULT
    /\ vector_freq = VECTOR_FREQUENCY_DEFAULT
    /\ x_center = 0 /\ x_repeat = 1 /\ y_center = 0 /\ y_repeat = 1
    /\ job_name = <<>> /\ job_user = <<>> /\ job_title = <<>>
    /\ buf = <<>>

\* no job file written, no vector stream, generate_vector not entered
InitVector ==
    /\ vector_file = <<>> /\ vector_pos = 0
    /\ pjl_file = <<>> /\ pjl_pos = 0
    /\ up = 0 /\ newline = 0 /\ started = 0
    /\ sx = 0 /\ sy = 0 /\ lx = 0 /\ ly = 0 /\ power = 0 /\ passstart = 0

\* no bitmap, generate_raster not entered
InitRaster ==
    /\ width = BED_WIDTH /\ height = BED_HEIGHT
    /\ bitmap_file = <<>> /\ bitmap_pos = 0
    /\ repeat = 0 /\ passes = 0 /\ base_offset = 0 /\ h = 0 /\ d = 0
    /\ bitmap_header = <<>>
    /\ pass = 0 /\ y = 0 /\ dir = 0 /\ pack = <<>>
    /\ offx = 0 /\ offy = 0 /\ basex = 0 /\ basey = 0

\* no socket, nothing sent, nothing returned
InitNet ==
    /\ socket_descriptor = -1 /\ sock_open = FALSE
    /\ i = 0 /\ alarm = 0 /\ slept = 0
    /\ sent = <<>> /\ rcvd = <<>> /\ lpdres = -1 /\ localhost = <<>>
    /\ nopts = 0
    /\ raster_ret = "none" /\ pjl_ret = "none" /\ send_ret = "none"
    /\ exit_code = -1

\* the document to convert, nothing converted
InitEps ==
    /\ ps_file = PsDoc /\ eps_file = <<>>

\* the program as it starts, the thread at start
InitAt(start) ==
    /\ InitStatics /\ InitEps /\ InitVector /\ InitRaster /\ InitNet
    /\ pc = start

\* the whole program, from the option loop to the exit status
Init ==
    /\ InitAt("getopt")
    /\ timeout = 0

Next ==
    \/ GetoptPower \/ GetoptMode \/ EndOptions \/ PsToEps \/ Ghostscript
    \/ PjlHeader \/ RasterRepeat \/ RasterOffx \/ RasterOffy \/ RasterPass
    \/ RasterRow \/ PjlVector \/ VectorOffy \/ VectorOffx \/ VectorLine
    \/ PjlFooter \/ MainPjl
    \/ SendBegin \/ ConnectAttempt \/ ConnectReturn
    \/ SendQueue \/ AckQueue \/ SendCf \/ AckCf \/ SendControl \/ AckControl
    \/ SendDf \/ AckDf \/ SendPayload \/ SendClose \/ MainSent

Spec == Init /\ [][Next]_vars

\* the option loop with any numeric values, up to range_checks
NextRange ==
    \/ GetoptNumber \/ GetoptFocus \/ GetoptJob \/ EndOptions \/ PsToEps

SpecRange == Init /\ [][NextRange]_vars

\* printer_connect called with any ceiling
InitConnect ==
    /\ timeout \in 0..MaxCeiling
    /\ InitAt(IF 0 < timeout THEN "connect" ELSE "connect_ret")

NextConnect == ConnectAttempt \/ ConnectReturn

SpecConnect == InitConnect /\ [][NextConnect]_vars

(***************************************************************************)
(* One pass of generate_raster over a monochrome bitmap of two equal rows: *)
(* the rows are built from runs and alternating stretches, so the packer   *)
(* sees runs and literals of every length around its limits, once left to  *)
(* right and once reversed.                                                *)
(***************************************************************************)
SegBytes == {0, 128}
SegLens == {1, 2, 127, 128, 129}

\* n equal bytes b; n bytes alternating b and 255 - b
Seg(kind, b, n) ==
    [k \in 1..n |-> IF kind = "run" \/ k % 2 = 1 THEN b ELSE 255 - b]

Segs == {Seg(kind, b, n) : kind \in {"run", "alt"}, b \in SegBytes,
                           n \in SegLens}

\* the rows of at most n segments
RECURSIVE RowsOf(_)
RowsOf(n) ==
    IF n = 0 THEN {<<>>}
    ELSE RowsOf(n - 1) \cup {r \o sg : r \in RowsOf(n - 1), sg \in Segs}

\* a row of 51 bytes: a byte followed by two equal bytes, 17 times
DotRow == [k \in 1..51 |-> IF k % 3 = 1 THEN 127 ELSE 128]

\* a row as the file stores it, padded to four bytes
Pad4(row) == row \o ZeroBytes((4 - (Len(row) % 4)) % 4)

\* generate_raster at the first row of the only pass of the only tile
InitPack ==
    /\ InitStatics /\ InitEps /\ InitVector /\ InitNet
    /\ \E row \in (RowsOf(MaxSegs) \ {<<>>}) \cup {DotRow} :
         /\ bitmap_file = MkBmp(8 * Len(row), 2, Pad4(row) \o Pad4(row))
         /\ width = 8 * Len(row)
         /\ h = Len(row)
         /\ d = CDiv(Len(row) + 3, 4) * 4
    /\ height = 2
    /\ bitmap_pos = BITMAP_HEADER_NBYTES
    /\ base_offset = BITMAP_HEADER_NBYTES
    /\ repeat = 0 /\ passes = 1 /\ pass = 0 /\ y = 1 /\ dir = 0
    /\ bitmap_header = SubSeq(bitmap_file, 1, BITMAP_HEADER_NBYTES)
    /\ pack = <<>>
    /\ offx = 0 /\ offy = 0 /\ basex = 0 /\ basey = 0
    /\ timeout = 0
    /\ pc = "r_row"

NextPack == RasterRow

SpecPack == InitPack /\ [][NextPack]_vars

(***************************************************************************)
(* generate_vector alone, as generate_pjl calls it for a job without a     *)
(* raster pass: any of a few command streams, the vector speed at its      *)
(* default or at 100, and the tile grid of x_repeat by y_repeat. main      *)
(* never assigns x_repeat and y_repeat, which are 1 as the program is      *)
(* built; the grid is that of a build with other initialisers.             *)
(***************************************************************************)
MaxTiles == 2

\* "P50\nX\n": a power change and nothing drawn
VecPowerOnly == <<80, 53, 48, 10, 88, 10>>

\* "M0,0\nL100,0\nC\nC\nX\n": a subpath closed twice
VecCloseTwice ==
    <<77, 48, 44, 48, 10, 76, 49, 48, 48, 44, 48, 10, 67, 10, 67, 10, 88, 10>>

\* "M0,0\nL100,0\nL100,50\nP50\nM5,5\nL9,9\nP50\nC\nX\n": two subpaths of
\* different powers
VecTwoPowers ==
    <<77, 48, 44, 48, 10, 76, 49, 48, 48, 44, 48, 10,
      76, 49, 48, 48, 44, 53, 48, 10, 80, 53, 48, 10,
      77, 53, 44, 53, 10, 76, 57, 44, 57, 10, 80, 53, 48, 10, 67, 10, 88, 10>>

\* "M1,1\nC\nL2,2\nP20\nC\nX\n": a close right after the move, and one after
\* a power change
VecLoose == <<77, 49, 44, 49, 10, 67, 10, 76, 50, 44, 50, 10, 80, 50, 48, 10, 67, 10, 88, 10>>

\* "M0,0\nL100,0\nMx\nPz\nLq\nC\nX\n": after a line, an M, a P and an L
\* without numbers
VecBad == <<77, 48, 44, 48, 10, 76, 49, 48, 48, 44, 48, 10, 77, 120, 10, 80, 122, 10, 76, 113, 10, 67, 10, 88, 10>>

VecStreams == {VecPath, VecEmpty, VecPowerOnly, VecCloseTwice, VecTwoPowers,
               VecLoose, VecBad, <<>>}

\* the program at the call of generate_vector: the options read (raster
\* power 0), the document converted, the files opened, the header written
InitTiles ==
    /\ focus = 0 /\ resolution = RESOLUTION_DEFAULT /\ raster_mode = "m"
    /\ raster_speed = RASTER_SPEED_DEFAULT /\ raster_power = 0
    /\ raster_repeat = 1 /\ screen_size = SCREEN_DEFAULT
    /\ vector_speed \in {VECTOR_SPEED_DEFAULT, 100}
    /\ vector_power = VECTOR_POWER_DEFAULT
    /\ vector_freq = VECTOR_FREQUENCY_DEFAULT
    /\ x_center = 0 /\ x_repeat \in 1..MaxTiles
    /\ y_center = 0 /\ y_repeat \in 1..MaxTiles
    /\ job_name = <<115, 116, 100, 105, 110>>
    /\ job_user = <<117, 115, 101, 114>>
    /\ job_title = job_name
    /\ width = BED_WIDTH /\ height = BED_HEIGHT
    /\ ps_file = PsDoc /\ eps_file = EpsOfPsDoc(raster_mode)
    /\ buf = BufOfPsDoc
    /\ bitmap_file = BmpWhole /\ bitmap_pos = 0
    /\ vector_file \in VecStreams /\ vector_pos = 0
    /\ pjl_file = PjlHead /\ pjl_pos = 0
    /\ repeat = 0 /\ passes = 0 /\ base_offset = 0 /\ h = 0 /\ d = 0
    /\ bitmap_header = <<>>
    /\ pass = 0 /\ y = 0 /\ dir = 0 /\ pack = <<>>
    /\ offx = 0 /\ offy = 0 /\ basex = 0 /\ basey = 0
    /\ up = 0 /\ newline = 0 /\ started = 0
    /\ sx = 0 /\ sy = 0 /\ lx = 0 /\ ly = 0 /\ power = 0 /\ passstart = 0
    /\ InitNet
    /\ timeout = 0
    /\ pc = "pjl_vector"

NextTiles ==
    \/ PjlVector \/ VectorOffy \/ VectorOffx \/ VectorLine \/ PjlFooter

SpecVector == InitTiles /\ [][NextTiles]_vars

(***************************************************************************)
(* generate_raster alone, as generate_pjl calls it: a monochrome or a      *)
(* colour job, the tile grid, and raster_repeat repeats. main never        *)
(* assigns raster_repeat, which is RASTER_REPEAT (1) as the program is     *)
(* built; more repeats are those of a build with another value.            *)
(***************************************************************************)
MaxRepeat == 2

\* 2 x 1 pixels: a white one and one with two saturated channels; and two
\* bitmaps in one stream, 2 x 2 and 1 x 1 monochrome pixels
BmpColours == MkBmp(2, 1, <<255, 255, 255, 5, 250, 250, 0, 0>>)
BmpTrail == MkBmp(2, 2, <<192, 0, 0, 0, 64, 0, 0, 0>>)
            \o MkBmp(1, 1, <<128, 0, 0, 0>>)

\* 3 x 2 colour pixels, each row padded to 12 bytes: pixels without a
\* saturated channel, with one, with two and with three
BmpMixed == MkBmp(3, 2, <<10, 20, 30, 250, 10, 250, 255, 255, 255, 0, 0, 0,
                          241, 0, 0, 240, 240, 240, 0, 0, 200, 0, 0, 0>>)

\* a bitmap whose header gives a height of 0, one whose header gives a width
\* of 0
BmpFlat == MkBmp(2, 0, <<>>)
BmpThin == MkBmp(0, 2, <<>>)

\* 16 x 4 monochrome pixels: a blank row between rows that are not
BmpRows == MkBmp(16, 4, <<3, 192, 0, 0, 0, 0, 0, 0, 1, 2, 0, 0, 0, 7, 0, 0>>)

\* the program at the call of generate_raster: the options read (vector
\* power 0), the document converted, the files opened
InitPasses ==
    /\ focus = 0 /\ resolution = RESOLUTION_DEFAULT
    /\ raster_mode \in {"m", "c"}
    /\ raster_speed = RASTER_SPEED_DEFAULT
    /\ raster_power = RASTER_POWER_DEFAULT
    /\ raster_repeat \in 1..MaxRepeat /\ screen_size = SCREEN_DEFAULT
    /\ vector_speed = VECTOR_SPEED_DEFAULT
    /\ vector_power = 0
    /\ vector_freq = VECTOR_FREQUENCY_DEFAULT
    /\ x_center = 0 /\ x_repeat \in 1..MaxTiles
    /\ y_center = 0 /\ y_repeat \in 1..MaxTiles
    /\ job_name = <<115, 116, 100, 105, 110>>
    /\ job_user = <<117, 115, 101, 114>>
    /\ job_title = job_name
    /\ width = BED_WIDTH /\ height = BED_HEIGHT
    /\ ps_file = PsDoc /\ eps_file = EpsOfPsDoc(raster_mode)
    /\ buf = BufOfPsDoc
    /\ bitmap_file \in {BmpWhole, BmpColours, BmpTrail, BmpMixed, BmpRows,
                       BmpFlat, BmpThin}
    /\ bitmap_pos = 0
    /\ vector_file = VecEmpty /\ vector_pos = 0
    /\ pjl_file = <<>> /\ pjl_pos = 0
    /\ repeat = 0 /\ passes = 0 /\ base_offset = 0 /\ h = 0 /\ d = 0
    /\ bitmap_header = <<>>
    /\ pass = 0 /\ y = 0 /\ dir = 0 /\ pack = <<>>
    /\ offx = 0 /\ offy = 0 /\ basex = 0 /\ basey = 0
    /\ up = 0 /\ newline = 0 /\ started = 0
    /\ sx = 0 /\ sy = 0 /\ lx = 0 /\ ly = 0 /\ power = 0 /\ passstart = 0
    /\ InitNet
    /\ timeout = 0
    /\ pc = "pjl_header"

NextPasses ==
    \/ PjlHeader \/ RasterRepeat \/ RasterOffx \/ RasterOffy \/ RasterPass
    \/ RasterRow

SpecRaster == InitPasses /\ [][NextPasses]_vars

\* weak fairness of RasterRow, with ENABLED <<RasterRow>>_vars written as the
\* condition it comes to: at "r_row" every branch of the step changes pass,
\* pc or y
RowFair == []<>(pc # "r_row") \/ []<><<RasterRow>>_vars

\* the program is a single thread that takes its next step as long as it has
\* one
SpecRasterLive ==
    /\ SpecRaster
    /\ WF_vars(PjlHeader \/ RasterRepeat \/ RasterOffx \/ RasterOffy
               \/ RasterPass)
    /\ RowFair

(***************************************************************************)
(* Operators the properties are stated with.                               *)
(***************************************************************************)
\* the places where sub occurs in s
Positions(sub, s) ==
    {k \in 1..(Len(s) - Len(sub) + 1) :
        \A j \in 1..Len(sub) : s[k + j - 1] = sub[j]}

Occurs(sub, s) == Positions(sub, s) # {}

\* the blocks of a sequence of blocks, joined
RECURSIVE Flatten(_)
Flatten(blocks) ==
    IF blocks = <<>> THEN <<>> ELSE Head(blocks) \o Flatten(Tail(blocks))

\* the nearest value of lo..hi
Nearest(v, lo, hi) == IF v < lo THEN lo ELSE IF v > hi THEN hi ELSE v

\* s in reversed order
Reverse(s) == [k \in 1..Len(s) |-> s[Len(s) + 1 - k]]

\* the device's reading of a packed stream: c >= 129 repeats the next byte
\* 257 - c times, c <= 126 copies the next c + 1 bytes, 0x80 bytes at the end
\* are filler; anything else is marked by -1
RECURSIVE Unpack(_)
Unpack(s) ==
    IF s = <<>> THEN <<>>
    ELSE LET c == Head(s) IN
         IF c = 128
         THEN IF \A k \in 1..Len(s) : s[k] = 128 THEN <<>> ELSE <<-1>>
         ELSE IF c >= 129 /\ Len(s) >= 2
         THEN [k \in 1..(257 - c) |-> s[2]] \o Unpack(SubSeq(s, 3, Len(s)))
         ELSE IF c <= 126 /\ Len(s) >= c + 2
         THEN SubSeq(s, 2, c + 2) \o Unpack(SubSeq(s, c + 3, Len(s)))
         ELSE <<-1>>

\* the stored row of the bitmap of SpecPack, and its bytes from the first to
\* the last that is not zero
FileRow == SubSeq(bitmap_file, BITMAP_HEADER_NBYTES + 1,
                  BITMAP_HEADER_NBYTES + h)
FirstSet(row) == CHOOSE k \in 1..Len(row) :
                    row[k] # 0 /\ \A j \in 1..(k - 1) : row[j] = 0
LastSet(row) == CHOOSE k \in 1..Len(row) :
                   row[k] # 0 /\ \A j \in (k + 1)..Len(row) : row[j] = 0
ActiveRange(row) == SubSeq(row, FirstSet(row), LastSet(row))
Blank(row) == \A k \in 1..Len(row) : row[k] = 0

\* the bytes written after the last "\e*b%dW": the packed line and its filler
LastStream ==
    LET m == ((Len(pack) + 7) \div 8) * 8
    IN SubSeq(pjl_file, Len(pjl_file) - m + 1, Len(pjl_file))

\* the text of the job footer: "\eE", "\e%-12345X", "@PJL EOJ \r\n"
FooterText ==
    <<27, 69, 27, 37, 45, 49, 50, 51, 52, 53, 88,
      64, 80, 74, 76, 32, 69, 79, 74, 32, 13, 10>>

\* the job without its footer and trailer
JobBody == SubSeq(pjl_file, 1, Len(pjl_file) - 4096 - Len(FooterText))

\* "\e*b", the lead of the raster data commands, and "\e%1B", the entry of
\* the vector language
RasterMark == <<27, 42, 98>>
VectorMark == <<27, 37, 49, 66>>

\* the positions of printer_send at which an acknowledgement is read
AckPoints == {"ack_queue", "ack_cf", "ack_control", "ack_df"}

\* the vector block of the job while generate_vector runs: what follows the
\* page reset
VecOut ==
    SubSeq(pjl_file, Len(PjlHead) + Len(VectorIntro) + 1, Len(pjl_file))

\* the line generate_vector reads next, its command letter, its arguments
NextLine == Fgets(vector_file, vector_pos)
AtCommand(c) ==
    pc = "v_line" /\ vector_pos < Len(vector_file) /\ NextLine[1] = c
Requested == ScanInt(SubSeq(NextLine, 2, Len(NextLine)), 1)

\* what a step of generate_vector appended to the job, the preamble of the
\* tile aside
Emitted ==
    SubSeq(pjl_file',
           Len(pjl_file) + 1 + (IF passstart = 0 THEN Len(Preamble) ELSE 0),
           Len(pjl_file'))

\* the scale factor of a power change to x, a value rescaled by it
Rate(x) ==
    Min(Min(CDiv(10000, x), CDiv(10000, vector_speed)),
        CDiv(500000, vector_freq))
Rescaled(v, r) == CDiv(50 + v * r, 100)

\* the commands of a power change to x with each of power, speed and
\* frequency rescaled from its own base value: ";ZS%03d;XR%04d;" and
\* ";YP%03d;", the latter alone at speed 100
Compensated(x) ==
    LET base == CDiv(x * vector_power + 50, 100) IN
    IF vector_speed < 100
    THEN <<59, 90, 83>> \o DecPad(Rescaled(vector_speed, Rate(x)), 3)
         \o <<59, 88, 82>> \o DecPad(Rescaled(vector_freq, Rate(x)), 4)
         \o <<59>>
         \o <<59, 89, 80>> \o DecPad(Rescaled(base, Rate(x)), 3) \o <<59>>
    ELSE <<59, 89, 80>> \o DecPad(base, 3) \o <<59>>

\* "PU" and "PD", and the places of the pen commands in a text
PenUp == <<80, 85>>
PenDown == <<80, 68>>
PenPlaces(s) == Positions(PenUp, s) \cup Positions(PenDown, s)

\* every pen command of s is followed by one of the other kind
PenAlternates(s) ==
    \A a \in PenPlaces(s) : \A b \in PenPlaces(s) :
        (a < b /\ ~\E k \in PenPlaces(s) : a < k /\ k < b) =>
            (a \in Positions(PenUp, s)) # (b \in Positions(PenUp, s))

\* between two pen-downs of s there is a pen-up
PenLifted(s) ==
    \A a \in Positions(PenDown, s) : \A b \in Positions(PenDown, s) :
        a < b => \E k \in Positions(PenUp, s) : a < k /\ k < b

\* t is the head of s
StartsWith(s, t) == Len(s) >= Len(t) /\ SubSeq(s, 1, Len(t)) = t

\* the vector block of the path "M0,0 P50 L100,0 C" on one tile at speed 100:
\* the preamble, ";YP%03d;" of half the vector power, pen-up at the M point,
\* pen-down to the L point, the closing point, the end of the block
PathOnce ==
    Preamble
      \o <<59, 89, 80>> \o DecPad(CDiv(50 * vector_power + 50, 100), 3)
      \o <<59>>
      \o PenUp \o Dec(HPGLX) \o <<44>> \o Dec(HPGLY)
      \o <<59>> \o PenDown \o Dec(HPGLX) \o <<44>> \o Dec(100 + HPGLY)
      \o <<44>> \o Dec(HPGLX) \o <<44>> \o Dec(HPGLY)
      \o <<59, 27, 37, 48, 66>> \o <<27, 37, 49, 66, 80, 85>>

\* pixel k of the colour row generate_raster reads next: its three stored
\* channels, the mask of the saturated ones, and the level it is printed at
\* (the mean of the others inverted and scaled by the raster power)
Channel(k, c) == bitmap_file[bitmap_pos + 3 * (k - 1) + c + 1]
Saturated(k) == {c \in 0..2 : Channel(k, c) > 240}
Mask(k) ==
    (IF 0 \in Saturated(k) THEN 1 ELSE 0) + (IF 1 \in Saturated(k) THEN 2 ELSE 0)
    + (IF 2 \in Saturated(k) THEN 4 ELSE 0)
Level(k) ==
    LET rest == (0..2) \ Saturated(k)
        sum == (IF 0 \in rest THEN Channel(k, 0) ELSE 0)
               + (IF 1 \in rest THEN Channel(k, 1) ELSE 0)
               + (IF 2 \in rest THEN Channel(k, 2) ELSE 0)
    IN IF rest = {} THEN 0
       ELSE ((255 - sum \div Cardinality(rest)) * raster_power) \div 255

\* generate_raster is about to read a whole row of a colour bitmap
ColourRowNext ==
    /\ pc = "r_row" /\ raster_mode = "c" /\ y >= 0
    /\ bitmap_pos + d <= Len(bitmap_file)

\* the 32-bit value stored at offset off of the bitmap stream, least
\* significant byte first
StoredAt(off) ==
    bitmap_file[off + 1] + 256 * bitmap_file[off + 2]
    + 65536 * bitmap_file[off + 3] + 16777216 * bitmap_file[off + 4]

\* the places where the tiles of the vector block start ("IN;"), the output
\* of the tile that starts at a
TileStarts == Positions(<<73, 78, 59>>, VecOut)
TileOut(a) ==
    SubSeq(VecOut, a,
           IF \E b \in TileStarts : b > a
           THEN (CHOOSE b \in TileStarts :
                    b > a /\ \A c \in TileStarts : c > a => b <= c) - 1
           ELSE Len(VecOut))

\* s[k] is a character of a coordinate: a digit or a sign that follows "U",
\* "D" or "," with digits and signs only in between
InCoordinate(s, k) ==
    /\ IsDigit(s[k]) \/ s[k] = 45
    /\ \E j \in 1..(k - 1) :
         /\ s[j] \in {85, 68, 44}
         /\ \A m \in (j + 1)..(k - 1) : IsDigit(s[m]) \/ s[m] = 45

\* s without its coordinates: the commands and the power, speed and frequency
\* values
Commands(s) ==
    SelectSeq([k \in 1..Len(s) |-> IF InCoordinate(s, k) THEN -1 ELSE s[k]],
              LAMBDA c : c # -1)

\* the command letter of the stream line read before the next one, 0 at the
\* head of the stream
PrevLetter ==
    IF vector_pos = 0 THEN 0
    ELSE LET starts == {0} \cup {k \in 1..(vector_pos - 1) :
                                    vector_file[k] = 10}
             s == CHOOSE k \in starts : \A j \in starts : j <= k
         IN vector_file[s + 1]

\* the lines of the vector stream that draw or set up drawing: M, L, C and P
\* at the head of the stream or after a newline
Drawable ==
    \E k \in 1..Len(vector_file) :
        /\ vector_file[k] \in {77, 76, 67, 80}
        /\ k = 1 \/ vector_file[k - 1] = 10

\* the closing sequence of the vector block, "\e%0B" "\e%1BPU"
Closing == <<27, 37, 48, 66, 27, 37, 49, 66, 80, 85>>

\* generate_vector is about to read the first command line of a tile, the
\* line the preamble is written on
PreambleNext ==
    /\ pc = "v_line" /\ vector_pos < Len(vector_file)
    /\ IsAlpha(NextLine[1]) /\ passstart = 0

\* the job ends within a coordinate list: after "PD", "," or a coordinate
OpenList ==
    /\ pjl_file # <<>>
    /\ \/ InCoordinate(pjl_file, Len(pjl_file))
       \/ pjl_file[Len(pjl_file)] = 44
       \/ /\ Len(pjl_file) >= 2
          /\ SubSeq(pjl_file, Len(pjl_file) - 1, Len(pjl_file)) = <<80, 68>>

\* a row as a scan line in direction dr holds it: its bytes from the first
\* to the last that is not zero are reversed on a right-to-left line (dr = 1)
Serpentine(row, dr) ==
    IF dr = 0 \/ Blank(row) THEN row
    ELSE SubSeq(row, 1, FirstSet(row) - 1) \o Reverse(ActiveRange(row))
         \o SubSeq(row, LastSet(row) + 1, Len(row))

\* the values of the pixels of the colour row read next in the pass ps: the
\* level of a pixel whose mask is ps, blank (0 once inverted) for the others
Separation(ps) == [k \in 1..h |-> IF Mask(k) = ps THEN Level(k) ELSE 0]

\* the bytes of the monochrome row generate_raster reads next, and the step
\* that reads it whole
RowNext == SubSeq(bitmap_file, bitmap_pos + 1, bitmap_pos + h)
MonoRowNext ==
    /\ pc = "r_row" /\ raster_mode \notin PowerModes /\ y >= 0
    /\ ~TooWide(RowBytes) /\ bitmap_pos + RowBytes <= Len(bitmap_file)

\* what a step appended to the job
Written == SubSeq(pjl_file', Len(pjl_file) + 1, Len(pjl_file'))

\* the commands that head a scan line: "\e*p%dY", "\e*p%dX", "\e*b%dA"
LineHead(py, px, count) ==
    <<27, 42, 112>> \o Dec(py) \o <<89>> \o <<27, 42, 112>> \o Dec(px)
    \o <<88>> \o <<27, 42, 98>> \o Dec(count) \o <<65>>

\* the data command "\e*b%dW" that declares m bytes
DataHead(m) == <<27, 42, 98>> \o Dec(m) \o <<87>>

\* text is the line head hd, a data command and the bytes it declares, which
\* the device reads as the bytes range
LineOf(text, hd, range) ==
    \E m \in 1..Len(text) :
        /\ StartsWith(text, hd \o DataHead(m))
        /\ Len(text) = Len(hd) + Len(DataHead(m)) + m
        /\ Unpack(SubSeq(text, Len(hd) + Len(DataHead(m)) + 1, Len(text)))
              = range

\* the line read next is a command c whose numbers sscanf does not find:
\* two for M and L, one for P
Unparsed(c) ==
    /\ AtCommand(c)
    /\ IF c = 80 THEN ~ScanInt(SubSeq(NextLine, 2, Len(NextLine)), 1).ok
       ELSE Sscanf2(SubSeq(NextLine, 2, Len(NextLine))).n < 2

(***************************************************************************)
(* The properties.                                                         *)
(***************************************************************************)
\* C1: when generate_raster fails on a row (the row wider than buf, or a
\* short read), generate_pjl does not report success and printer_send is not
\* entered: nothing of the job is written to the device.
C1_RasterFailureAborts ==
    raster_ret = "false" =>
        /\ pjl_ret # "true"
        /\ send_ret = "none"
        /\ sent = <<>>

\* C2: at each of the four acknowledgement points of printer_send a non-zero
\* byte read from the device ends the call with failure, and a failed call
\* writes nothing more; after a non-zero answer to the queue command only
\* that command has been written.
C2_NonZeroAckAborts ==
    [][/\ (pc \in AckPoints /\ rcvd' # rcvd /\ lpdres' # 0)
            => (send_ret' = "false" /\ pc' = "main_sent" /\ sent' = sent)
       /\ (send_ret = "false") => (sent' = sent /\ send_ret' = "false")
       /\ (pc = "ack_queue" /\ rcvd' # rcvd /\ lpdres' # 0)
            => (Len(sent') = 1 /\ sent'[1] = <<2>> \o queue \o <<10>>)]_vars

\* C2 (its case): the device answered the control block, the third
\* acknowledgement point, with a non-zero byte and the call failed.
C2_Witness ==
    /\ pc = "main_sent" /\ send_ret = "false"
    /\ Len(rcvd) = 3 /\ rcvd[3] # 0 /\ Len(sent) = 3

\* C3: when printer_connect returned no socket, printer_send returns failure
\* and has written nothing, whatever lpdres held at the start.
C3_NoSocketFails ==
    (pc \in {"main_sent", "exit"} /\ socket_descriptor = -1)
        => (send_ret = "false" /\ sent = <<>>)

\* C4: printer_connect with ceiling N sleeps one second after every failed
\* attempt, returns a socket that connected at once, and returns failure only
\* when N attempts have failed (N sleeps made).
C4_ConnectRetries ==
    [][/\ (pc = "connect" /\ socket_descriptor' < 0)
            => (slept' = slept + 1 /\ i' = i + 1 /\ i < timeout)
       /\ (pc = "connect" /\ socket_descriptor' >= 0)
            => (pc' = "connect_ret" /\ slept' = slept /\ i' = i)
       /\ (pc = "connect_ret" /\ socket_descriptor' = -1)
            => (i = timeout /\ slept = timeout)
       /\ (pc = "connect_ret" /\ socket_descriptor' >= 0)
            => (i < timeout /\ slept = i
                /\ socket_descriptor' = socket_descriptor)]_vars

\* C4 (its case): every attempt up to the largest ceiling has failed.
C4_Witness ==
    /\ pc = "connect_ret" /\ timeout = MaxCeiling
    /\ i = MaxCeiling /\ slept = MaxCeiling /\ socket_descriptor = -1

C7_JobOrder ==
    pc = "main_pjl" =>
        LET n == Len(pjl_file) IN
        /\ n >= Len(PjlHead) + Len(FooterText) + 4096
        /\ SubSeq(pjl_file, 1, Len(PjlHead)) = PjlHead
        /\ \A a \in Positions(RasterMark, JobBody) \cup
                    Positions(VectorMark, JobBody) : a > Len(PjlHead)
        /\ \A a \in Positions(RasterMark, JobBody) :
             \A b \in Positions(VectorMark, JobBody) : a < b
        /\ SubSeq(pjl_file, n - 4096 - Len(FooterText) + 1, n - 4096)
              = FooterText
        /\ \A k \in (n - 4095)..n : pjl_file[k] = 0
        /\ pjl_file[n - 4096] # 0

\* C7 (its case): a job with a whole raster block and a vector block.
C7_Witness ==
    /\ pc = "main_pjl" /\ raster_ret = "true"
    /\ Occurs(RasterMark, JobBody) /\ Occurs(VectorMark, JobBody)

\* C8: the job holds raster commands exactly when the raster power is above 0
\* and the mode is not 'n', the vector page reset and the vector block exactly
\* when the vector power is above 0, and with both powers 0 it is the header,
\* the page setup, the footer and the trailer.
C8_BlocksPresent ==
    pc = "main_pjl" =>
        /\ (Occurs(RasterIntro, JobBody) /\ Occurs(RasterMark, JobBody))
              <=> (raster_power > 0 /\ raster_mode # "n")
        /\ (Occurs(RasterIntro, JobBody) \/ Occurs(RasterMark, JobBody))
              => (raster_power > 0 /\ raster_mode # "n")
        /\ (Occurs(VectorIntro, JobBody)
            /\ Occurs(VectorMark \o <<80, 85>>, JobBody))
              <=> vector_power > 0
        /\ Occurs(VectorMark, JobBody) => vector_power > 0
        /\ (raster_power = 0 /\ vector_power = 0)
              => pjl_file = PjlHead \o FooterText \o [k \in 1..4096 |-> 0]

\* C8 (its case): a job with the raster power above 0 and the mode 'n', hence
\* without raster block, and with a vector block.
C8_Witness ==
    /\ pc = "main_pjl" /\ raster_mode = "n" /\ raster_power > 0
    /\ vector_power > 0 /\ Occurs(VectorMark, JobBody)

\* C9: when printer_send returns success, the data file was announced with
\* the size of the job, the announcement was answered with a zero byte, and
\* what was written after it is the job, byte for byte.
C9_PayloadDelivered ==
    send_ret = "true" =>
        /\ Len(sent) >= 4
        /\ sent[4] = <<3>> \o Dec(Len(pjl_file)) \o <<32, 100, 102, 65>>
                     \o job_name \o localhost \o <<10>>
        /\ Len(rcvd) = 4 /\ rcvd[4] = 0
        /\ Flatten(SubSeq(sent, 5, Len(sent))) = pjl_file

\* C10: the control block written to the device holds the records of the
\* host, the user, the title and the two file references, and the length
\* announced for it is the length of the block (with or without its final
\* NUL).
C10_ControlBlock ==
    Len(sent) >= 3 =>
        LET blk == sent[3]
            name == job_name \o localhost \o <<10>>
        IN /\ Occurs(<<72>> \o localhost \o <<10>>, blk)
           /\ Occurs(<<80>> \o job_user \o <<10>>, blk)
           /\ Occurs(<<74>> \o job_title \o <<10>>, blk)
           /\ Occurs(<<108, 100, 102, 65>> \o name, blk)
           /\ Occurs(<<85, 100, 102, 65>> \o name, blk)
           /\ \E len \in {Len(blk), Len(blk) - 1} :
                sent[2] = <<2>> \o Dec(len) \o <<32, 99, 102, 65>> \o name

\* C11: a P command that changes the power to x, 0 < x < 100, emits (after the
\* pen-up, if the pen was down) the speed, the frequency and the power each
\* rescaled from its own base value by min(10000/x, 10000/speed,
\* 500000/frequency) / 100 when the vector speed is below 100, and the power
\* x% of the vector power alone when the speed is 100.
C11_EnergyCompensation ==
    [][(/\ AtCommand(80)
        /\ Requested.ok /\ Requested.val # power
        /\ 0 < Requested.val /\ Requested.val < 100) =>
          Emitted = (IF up = 0 THEN <<59, 80, 85>> ELSE <<>>)
                    \o Compensated(Requested.val)]_vars

C13_NonZeroMasks ==
    [][(ColourRowNext /\ pjl_file' # pjl_file) =>
          \E k \in 1..h : Mask(k) # 0 /\ Level(k) > 0]_vars

\* C13: the colour mode runs 7 separation passes per tile, numbered 0 to 6;
\* pass p emits a scan line for a row exactly when the row holds a pixel whose
\* mask of saturated channels is p (0: no channel saturated) and whose level
\* is not zero. A pixel with all three channels saturated (mask 7) is printed
\* in no pass.
C13_SeparationPasses ==
    [][/\ ColourRowNext =>
            /\ pass \in 0..6
            /\ pjl_file' # pjl_file <=>
                 \E k \in 1..h : Mask(k) = pass /\ Level(k) > 0
       /\ (raster_mode = "c" /\ pc = "r_offy" /\ pc' = "r_pass") => pass' = 0
       /\ (raster_mode = "c" /\ pc = "r_row" /\ pc' = "r_pass") =>
            pass' = pass + 1
       /\ (raster_mode = "c" /\ pc = "r_pass" /\ pc' = "r_offy") => pass = 7
      ]_vars

\* C13 (its case): the sixth pass of a colour job has emitted the line of the
\* pixel with two saturated channels, next to a white pixel.
C13_Witness ==
    /\ pc = "r_row" /\ raster_mode = "c" /\ bitmap_file = BmpColours
    /\ pass = 6 /\ y < 0 /\ Len(pack) > 0

C16_SocketClosed ==
    (send_ret # "none" /\ socket_descriptor >= 0) => ~sock_open

\* C17: when the option loop ends with screen size 0 in a mode other than
\* colour and grey, the screen set-up ps_to_eps writes into the document for
\* the configuration that results is the 0.5 threshold transfer function,
\* with no halftone screen.
C17_ThresholdScreen ==
    [][(/\ pc = "getopt" /\ pc' = "ps_to_eps"
        /\ screen_size = 0 /\ raster_mode \notin {"c", "g"}) =>
          ScreenSetup(raster_mode', screen_size', resolution') = Threshold
      ]_vars

\* C18: a C command writes the segment back to the start point of the subpath
\* exactly when a line was drawn since the last M and the subpath is not
\* closed already: the last line does not end at the start point and the
\* command before was not a C.  After a C, and after an M, it writes nothing.
C18_CloseSegment ==
    [][AtCommand(67) =>
         ((Emitted # <<>>) <=>
            (/\ newline = 0
             /\ PrevLetter # 67
             /\ lx # sx \/ ly # sy))]_vars

\* C19: the preamble "IN;..." is written once in each tile when the stream
\* has a drawable command (M, L, C or P) and is not written when it has none.
C19_PreambleOnDrawable ==
    pc = "pjl_footer" =>
        Cardinality(TileStarts)
            = (IF Drawable THEN x_repeat * y_repeat ELSE 0)

\* C20: the closing sequence "\e%0B" "\e%1BPU" is written once, at the end of
\* the vector block, when a line was drawn (a pen-down was written), and is
\* not written when no line was drawn.
C20_ClosingOnDrawn ==
    pc = "pjl_footer" =>
        IF Occurs(PenDown, VecOut)
        THEN Positions(Closing, VecOut) = {Len(VecOut) - Len(Closing) + 1}
        ELSE ~Occurs(Closing, VecOut)

\* C21: in colour mode every pixel of a row is printed in at most one pass,
\* the pass that equals its mask of saturated channels, at the inverted mean
\* of its other channels scaled by the raster power; in every other pass it
\* is blank, and a pixel with three saturated channels is blank in all passes.
C21_OnePassPerPixel ==
    [][ColourRowNext =>
         /\ BufBytes(buf', 0, h) = Serpentine(Separation(pass), dir)
         /\ \A k \in 1..h :
              /\ Cardinality({ps \in 0..6 : Separation(ps)[k] # 0}) <= 1
              /\ Saturated(k) = 0..2 =>
                   \A ps \in 0..6 : Separation(ps)[k] = 0]_vars

\* C21 (its case): pass 5 of the 3 x 2 colour bitmap has printed the first
\* row, whose second pixel has the mask 5, next to a pixel without saturated
\* channels and a white one.
C21_Witness ==
    /\ pc = "r_row" /\ raster_mode = "c" /\ bitmap_file = BmpMixed
    /\ pass = 5 /\ y = 0 /\ dir = 1
    /\ BufBytes(buf, 0, 3) = <<0, 38, 0>>

\* C22: a scan line whose bytes are all blank writes nothing; any other scan
\* line writes the X position of the first byte that is not blank, the count
\* of the bytes from that one to the last that is not blank, and the packed
\* form of exactly those bytes.
C22_ActiveRange ==
    [][MonoRowNext =>
         IF Blank(RowNext) THEN pjl_file' = pjl_file
         ELSE LineOf(Written,
                     LineHead(basey + offy + y,
                              basex + offx + 8 * (FirstSet(RowNext) - 1),
                              IF dir = 0 THEN Len(ActiveRange(RowNext))
                              ELSE -Len(ActiveRange(RowNext))),
                     IF dir = 0 THEN ActiveRange(RowNext)
                     ELSE Reverse(ActiveRange(RowNext)))]_vars

\* C22 (its case): a row of three blank bytes, 64 times a set and a blank
\* byte, has been written as a scan line that starts at pixel 24.
C22_Witness ==
    /\ pc = "r_row" /\ y = 0 /\ dir = 1
    /\ FileRow = Seg("run", 0, 2) \o Seg("alt", 0, 129)
    /\ Occurs(<<27, 42, 112>> \o Dec(24) \o <<88>>
              \o <<27, 42, 98>> \o Dec(127) \o <<65>>, pjl_file)

\* C23: each pass of each tile starts left to right, and the direction
\* changes with every scan line that is written (a blank row leaves it); a
\* line written right to left declares a negative count and holds its active
\* range in reversed order, a line written left to right a positive count
\* and the stored order.
C23_Serpentine ==
    [][/\ (pc = "r_pass" /\ pc' = "r_row") => dir' = 0
       /\ MonoRowNext =>
            /\ dir' = (IF Blank(RowNext) THEN dir ELSE 1 - dir)
            /\ ~Blank(RowNext) =>
                 \E x \in 0..(8 * h) :
                    IF dir = 0
                    THEN LineOf(Written,
                                LineHead(basey + offy + y, basex + offx + x,
                                         Len(ActiveRange(RowNext))),
                                ActiveRange(RowNext))
                    ELSE LineOf(Written,
                                LineHead(basey + offy + y, basex + offx + x,
                                         -Len(ActiveRange(RowNext))),
                                Reverse(ActiveRange(RowNext)))]_vars

\* C23 (its case): of four rows the first went left to right, the blank
\* second wrote nothing, the third went right to left with its two bytes
\* exchanged, and the fourth is to go left to right again.
C23_Witness ==
    /\ pc = "r_row" /\ raster_mode = "m" /\ bitmap_file = BmpRows
    /\ y = 0 /\ dir = 0
    /\ BufBytes(buf, 0, 2) = <<2, 1>>
    /\ Occurs(<<27, 42, 98>> \o Dec(-2) \o <<65>>, pjl_file)

\* C24: the count a scan line's data command declares is the number of bytes
\* written after it and a multiple of 8; these bytes are the packed bytes and
\* fewer than 8 filler bytes, each 0x80.
C24_DeclaredCount ==
    [][(MonoRowNext /\ pjl_file' # pjl_file) =>
         \E m \in 1..Len(Written) :
            LET data == SubSeq(Written, Len(Written) - m + 1, Len(Written))
                n == Len(pack')
            IN /\ m + Len(DataHead(m)) <= Len(Written)
               /\ SubSeq(Written, Len(Written) - m - Len(DataHead(m)) + 1,
                         Len(Written) - m) = DataHead(m)
               /\ m % 8 = 0
               /\ n > 0 /\ m - n \in 0..7
               /\ SubSeq(data, 1, n) = pack'
               /\ \A k \in (n + 1)..m : data[k] = 128]_vars

\* C24 (its case): a row of one set byte has been packed into two bytes and
\* written as eight, six of them filler.
C24_Witness ==
    /\ pc = "r_row" /\ y = 0 /\ FileRow = Seg("run", 128, 1)
    /\ Len(pack) = 2
    /\ SubSeq(pjl_file, Len(pjl_file) - 12, Len(pjl_file))
          = DataHead(8) \o pack \o <<128, 128, 128, 128, 128, 128>>

\* C25: every address resolution of printer_connect, the first included, is
\* made with the watchdog alarm armed, and the alarm is disarmed when
\* printer_connect returns a connected socket.
C25_WatchdogArmed ==
    [][/\ pc = "connect" => alarm > 0
       /\ (pc = "connect_ret" /\ socket_descriptor' >= 0) => alarm' = 0]_vars

\* C26: an M, L or P line whose numbers cannot be read is skipped: it writes
\* no motion and no power command, and leaves the pen state, the flag of a
\* new subpath, the start point, the last point and the power as they were.
C26_UnparsedSkipped ==
    [][(Unparsed(77) \/ Unparsed(76) \/ Unparsed(80)) =>
         /\ Emitted = <<>>
         /\ UNCHANGED <<up, newline, sx, sy, lx, ly, power>>]_vars

\* C27: whatever the capacity B of buf, a scan line that passes the check
\* "Too wide" (its d bytes are at most B) is packed into at most B * 5 / 4 + 1
\* bytes, the size of the array pack, whatever its bytes: so it is for the
\* least such B, d itself.
C27_PackFits ==
    [][(MonoRowNext /\ pjl_file' # pjl_file) =>
         Len(pack') <= PackSize(RowBytes)]_vars

\* C28: in colour mode, on a row whose padded width d passes the "Too wide"
\* test, the separation loop reads only places of buf below d, the bytes of
\* the row that was just read, and none at or past the size of buf
C28_ReadsWithinRow ==
    [][(ColourRowNext /\ ~TooWide(d)) =>
         \A at \in ColourReads(d) : at < d /\ at < BufSize]_vars

\* C29: generate_raster comes to its end for every geometry of the bitmap, a
\* width or height of 0 in the header included: the loops over the tiles of
\* the x_repeat by y_repeat grid take every tile once and are left
C29_TilesTerminate == <>(pc = "pjl_vector")

=============================================================================
